---- MODULE Spec2Model ----
(***************************************************************************)
(* Messaging automation engine of chatery_whatsapp: the Broadcast queue    *)
(* processor (src/unnamed/part_005, class BroadcastService), the Scheduler *)
(* (WebSocketManager.js, class SchedulerService) and the Auto-Reply rule   *)
(* matcher (src/unnamed/part_005, class AutoReplyService), and the Redis   *)
(* rate limiter (src/unnamed/part_006, rateLimiter.check).                 *)
(*                                                                         *)
(* JavaScript runs one task at a time: every action below is the code that *)
(* runs between two suspension points (an await of a gateway send or of a  *)
(* setTimeout delay), so a handler without an await is one action.         *)
(***************************************************************************)
EXTENDS Integers, Sequences, FiniteSets, Bags, TLC

\* ------------------------------------------------------------------ bounds
MaxRecipients == 2      \* longest recipient list given to create
MaxLoops == 2           \* _processQueue activations alive at once, per campaign
MaxClock == 2           \* successful start() calls (each reads a later Date)
MaxFires == 2           \* gateway sends issued for one schedule
MaxInFlight == 2        \* executions of one schedule awaiting their send at once
MaxMatches == 1         \* matches counted on one rule
MaxTextLen == 3         \* longest message text given to _matchesTrigger
MaxKeywordLen == 1      \* longest keyword of a keyword trigger
MaxCalls == 4           \* rateLimiter.check calls for the key

\* batchSize of this.config, scaled down from 10 so that a batch boundary
\* falls inside MaxRecipients recipients.
batchSize == 2

\* uuidv4() never returns an id twice: an id is used by at most one create.
BIds == {"b1"}
SIds == {"s1"}
RuleIds == <<"r1", "r2">>      \* in the order of the create calls
RIds == {RuleIds[n] : n \in DOMAIN RuleIds}

VARIABLES
    \* ---- BroadcastService
    broadcasts,        \* keys of the Map this.broadcasts
    bcast,             \* the broadcast objects, by id (the Map's values are references)
    persistedB,        \* content of data/broadcasts.json
    activeQueues,      \* keys of the Map this.activeQueues
    loops,             \* the live _processQueue activations of each campaign: a bag of
                       \* their local states (where they wait, the recipient index
                       \* in flight, messagesInBatch)
    sendCount,         \* history: gateway send calls issued, per campaign and recipient index
    whatsappManagerB,  \* this.whatsappManager is set
    emitted,           \* history: the broadcast.update events given to wsManager.broadcast,
                       \* per campaign: their number and the last one
    clock,             \* logical time read by new Date() in start
    \* ---- SchedulerService
    schedules,         \* keys of the Map this.schedules
    sched,             \* the schedule objects, by id
    persistedS,        \* content of data/schedules.json
    jobs,              \* keys of the Map this.jobs: the live cron triggers
    executions,        \* _executeSchedule activations awaiting their send, per schedule
    sends,             \* history: sendTextMessage calls issued, per schedule
    whatsappManagerS,  \* this.whatsappManager is set
    \* ---- AutoReplyService
    rules,             \* the values of the Map this.rules, in insertion order
    persistedR,        \* content of data/rules.json
    nextRuleId,        \* the number of rules created so far
    \* ---- the Session Gateway
    session,           \* what getSession(sessionId) returns: absent, or a handle and its connectionStatus
    \* ---- the WebSocket server
    io,                \* wsManager.io is set: initialize(httpServer) has run
    \* ---- Redis and the rate limiter
    ratelimit,         \* the sorted set at ratelimit:<key>: its entries, member and score
    dateNow,           \* the clock Date.now() reads, in milliseconds
    answered,          \* history: the check calls for the key in the order of their
                       \* Date.now(), with their answers
    \* ---- the file system
    storage,           \* whether fs.writeFileSync succeeds ("ok") or throws ("failing")
    \* ---- the last operation and its result
    last

bvars == <<broadcasts, bcast, persistedB, activeQueues, loops, sendCount,
           whatsappManagerB, emitted, clock>>
svars == <<schedules, sched, persistedS, jobs, executions, sends,
           whatsappManagerS>>
rvars == <<rules, persistedR, nextRuleId>>
lvars == <<ratelimit, dateNow, answered>>
vars == <<bvars, svars, rvars, session, storage, io, lvars, last>>

\* ------------------------------------------------------------ the gateway
SessionStates == {"absent", "connected", "close"}

\* The transport opens, loses or removes the session at any time.
SessionChange(s) ==
    /\ s \in SessionStates
    /\ s # session
    /\ session' = s
    /\ last' = [op |-> "session", id |-> "-", success |-> TRUE]
    /\ UNCHANGED <<bvars, svars, rvars, storage, io, lvars>>

StorageStates == {"ok", "failing"}

\* The disk fills up or is remounted: writes start or stop failing.
StorageChange(s) ==
    /\ s \in StorageStates
    /\ s # storage
    /\ storage' = s
    /\ last' = [op |-> "storage", id |-> "-", success |-> TRUE]
    /\ UNCHANGED <<bvars, svars, rvars, session, io, lvars>>

\* wsManager.initialize(httpServer): the WebSocket server is created.
initialize ==
    /\ ~io
    /\ io' = TRUE
    /\ last' = [op |-> "initialize", id |-> "-", success |-> TRUE]
    /\ UNCHANGED <<bvars, svars, rvars, session, storage, lvars>>

\* ======================================================= BroadcastService
NoBroadcast ==
    [status |-> "none", recipients |-> <<>>,
     stats |-> [total |-> 0, sent |-> 0, failed |-> 0, pending |-> 0],
     currentIndex |-> 0, startedAt |-> 0, completedAt |-> 0]

ActiveLoops(b) == BagCardinality(loops[b])

\* No broadcast.update event was emitted yet.
NoEvents ==
    [count |-> 0,
     last |-> [status |-> "none",
               stats |-> [total |-> 0, sent |-> 0, failed |-> 0, pending |-> 0],
               currentIndex |-> 0, final |-> FALSE, completedAt |-> 0]]

\* A mutant of Emit: the event after a processed recipient is not emitted.
EmitOnlyFinal(e, o, final) ==
    IF io /\ final
    THEN [count |-> e.count + 1,
          last |-> [status |-> o.status, stats |-> o.stats,
                    currentIndex |-> o.currentIndex, final |-> final,
                    completedAt |-> o.completedAt]]
    ELSE e

\* wsManager.broadcast('broadcast.update', {...}) of lines 836-843 and, with the
\* field completedAt (final), of lines 869-877: the event carries the values
\* the broadcast object has at the call. Without a WebSocket server
\* wsManager.broadcast warns and emits nothing.
Emit(e, o, final) ==
    IF ~io THEN e
    ELSE [count |-> e.count + 1,
          last |-> [status |-> o.status, stats |-> o.stats,
                    currentIndex |-> o.currentIndex, final |-> final,
                    completedAt |-> IF final THEN o.completedAt ELSE 0]]

AddLoop(bag, lp) == bag (+) SetToBag({lp})
RemoveLoop(bag, lp) == bag (-) SetToBag({lp})

\* _saveBroadcasts: the file is rewritten with the values of the Map; an error
\* of the write is caught and logged, and the file is then taken to keep its
\* content.
SaveBroadcasts(keys, objs) ==
    IF storage = "failing" THEN persistedB
    ELSE [b \in BIds |-> IF b \in keys THEN objs[b] ELSE NoBroadcast]

\* recipients.map(r => ({chatId: r, status: 'pending', sentAt: null, error: null}))
NewRecipients(n) ==
    [i \in 1..n |-> [status |-> "pending", sentAt |-> FALSE, error |-> FALSE]]

NewBroadcast(n) ==
    [status |-> "created", recipients |-> NewRecipients(n),
     stats |-> [total |-> n, sent |-> 0, failed |-> 0, pending |-> n],
     currentIndex |-> 0, startedAt |-> 0, completedAt |-> 0]

setWhatsAppManagerB ==
    /\ UNCHANGED <<svars, rvars, storage, io, lvars>>
    /\ ~whatsappManagerB
    /\ whatsappManagerB' = TRUE
    /\ last' = [op |-> "setWhatsAppManager", id |-> "-", success |-> TRUE]
    /\ UNCHANGED <<broadcasts, bcast, persistedB, activeQueues, loops, sendCount,
                   emitted, clock, session>>

\* The options of create: fieldsPresent is name && sessionId && message; recipients is
\* missing, something that is no array, or an array of n chat ids.
RecipientInputs ==
    {[kind |-> "missing", n |-> 0], [kind |-> "notArray", n |-> 0]}
        \cup {[kind |-> "array", n |-> n] : n \in 0..MaxRecipients}

CreateValid(fieldsPresent, recipients) ==
    /\ fieldsPresent
    /\ recipients.kind # "missing"
    /\ recipients.kind = "array"
    /\ recipients.n # 0

\* create(options); b is the id uuidv4() returns when the options are valid.
create(b, fieldsPresent, recipients) ==
    /\ UNCHANGED <<svars, rvars, storage, io, lvars>>
    /\ IF CreateValid(fieldsPresent, recipients)
       THEN /\ bcast[b].status = "none"
            /\ bcast' = [bcast EXCEPT ![b] = NewBroadcast(recipients.n)]
            /\ broadcasts' = broadcasts \cup {b}
            /\ persistedB' = SaveBroadcasts(broadcasts', bcast')
            /\ last' = [op |-> "create", id |-> b, success |-> TRUE]
       ELSE /\ UNCHANGED <<bcast, broadcasts, persistedB>>
            /\ last' = [op |-> "create", id |-> "-", success |-> FALSE]
    /\ UNCHANGED <<activeQueues, loops, sendCount, whatsappManagerB, emitted, clock,
                   session>>

\* The while loop of _processQueue from its head to its next suspension:
\* the status check, the skip of processed recipients, then either a send
\* (result.next = "send" for the recipient at result.obj.currentIndex) or the
\* end of the loop.
RECURSIVE LoopIter(_, _)
LoopIter(o, inMap) ==
    IF o.currentIndex < Len(o.recipients)
    THEN IF ~inMap \/ o.status # "running"
         THEN [next |-> "exit", obj |-> o]
         ELSE IF o.recipients[o.currentIndex + 1].status # "pending"
              THEN LoopIter([o EXCEPT !.currentIndex = @ + 1], inMap)
              ELSE [next |-> "send", obj |-> o]
    ELSE [next |-> "exit", obj |-> o]

\* A mutant of Completion: the exhausted campaign is left as it is.
CompletionKeepsStatus(o, t) == o

\* After the loop: mark completed when the cursor is exhausted.
Completion(o, t) ==
    IF o.currentIndex >= Len(o.recipients)
    THEN [o EXCEPT !.status = "completed", !.completedAt = t]
    ELSE o

\* One run of the loop of an activation of campaign b, from the loop head with
\* the object o up to the suspension in a send or to the return of
\* _processQueue. others are the other activations of b; aq and saved are
\* this.activeQueues and the file as the caller left them; t is the time
\* new Date() returns.
ContinueLoop(b, others, o, inBatch, aq, saved, t) ==
    LET r == LoopIter(o, b \in broadcasts) IN
    IF r.next = "send"
    THEN /\ bcast' = [bcast EXCEPT ![b] = r.obj]
         /\ loops' = [loops EXCEPT ![b] =
                        AddLoop(others, [pc |-> "send", k |-> r.obj.currentIndex,
                                         messagesInBatch |-> inBatch])]
         /\ sendCount' = [sendCount EXCEPT ![b][r.obj.currentIndex + 1] = @ + 1]
         /\ activeQueues' = aq
         /\ persistedB' = saved
         /\ UNCHANGED <<broadcasts, emitted>>
    ELSE /\ bcast' = [bcast EXCEPT ![b] = Completion(r.obj, t)]
         /\ emitted' = [emitted EXCEPT ![b] = Emit(@, bcast'[b], TRUE)]
         /\ broadcasts' = broadcasts \cup {b}
         /\ persistedB' = SaveBroadcasts(broadcasts', bcast')
         /\ activeQueues' = aq \ {b}
         /\ loops' = [loops EXCEPT ![b] = others]
         /\ UNCHANGED sendCount

\* A mutant of StartResult: the check of a completed campaign is missing.
StartResultOnlyRunning(b) ==
    IF b \notin broadcasts THEN "Broadcast not found"
    ELSE IF bcast[b].status = "running" THEN "Broadcast is already running"
    ELSE IF ~whatsappManagerB THEN "WhatsApp Manager not initialized"
    ELSE IF session = "absent" THEN "Session not found"
    ELSE IF session # "connected" THEN "Session is not connected"
    ELSE "Broadcast started"

\* Lines 721-746 and 757: the early returns of start, by the message returned.
StartResult(b) ==
    IF b \notin broadcasts THEN "Broadcast not found"
    ELSE IF bcast[b].status = "running" THEN "Broadcast is already running"
    ELSE IF bcast[b].status = "completed" THEN "Broadcast is already completed"
    ELSE IF ~whatsappManagerB THEN "WhatsApp Manager not initialized"
    ELSE IF session = "absent" THEN "Session not found"
    ELSE IF session # "connected" THEN "Session is not connected"
    ELSE "Broadcast started"

\* start(id), with the synchronous part of the _processQueue(id) it calls: start
\* has no await before the call, and _processQueue runs up to its first await.
start(b) ==
    /\ UNCHANGED <<svars, rvars, storage, io, lvars>>
    /\ IF StartResult(b) # "Broadcast started"
       THEN /\ last' = [op |-> "start", id |-> b, success |-> FALSE,
                        message |-> StartResult(b)]
            /\ UNCHANGED <<bvars, session>>
       ELSE /\ clock < MaxClock
            /\ ActiveLoops(b) < MaxLoops
            /\ clock' = clock + 1
            /\ LET o == [bcast[b] EXCEPT !.status = "running",
                                         !.startedAt = IF @ = 0 THEN clock' ELSE @]
               IN  ContinueLoop(b, loops[b], o, 0, activeQueues \cup {b},
                                SaveBroadcasts(broadcasts, [bcast EXCEPT ![b] = o]),
                                clock')
            /\ last' = [op |-> "start", id |-> b, success |-> TRUE,
                        message |-> "Broadcast started"]
            /\ UNCHANGED <<whatsappManagerB, session>>

\* The gateway call of activation lp returns (ok), returns an unsuccessful
\* result (unsuccessful) or throws (throw): lines 809-854, up to the delay.
SendOutcomes == {"ok", "unsuccessful", "throw"}

\* A mutant of Recorded: the failure branches forget stats.pending--.
RecordedKeepsPending(o, k, outcome) ==
    IF outcome = "ok"
    THEN [o EXCEPT !.recipients[k + 1].status = "sent",
                   !.recipients[k + 1].sentAt = TRUE,
                   !.stats.sent = @ + 1,
                   !.stats.pending = @ - 1]
    ELSE [o EXCEPT !.recipients[k + 1].status = "failed",
                   !.recipients[k + 1].error = TRUE,
                   !.stats.failed = @ + 1]

\* A mutant of Recorded: a failed send ends the campaign.
RecordedFailureAborts(o, k, outcome) ==
    IF outcome = "ok"
    THEN [o EXCEPT !.recipients[k + 1].status = "sent",
                   !.recipients[k + 1].sentAt = TRUE,
                   !.stats.sent = @ + 1,
                   !.stats.pending = @ - 1]
    ELSE [o EXCEPT !.recipients[k + 1].status = "failed",
                   !.recipients[k + 1].error = TRUE,
                   !.stats.failed = @ + 1,
                   !.stats.pending = @ - 1,
                   !.status = "failed"]

\* Lines 809-828: the result of the send is recorded on the recipient captured
\* before the await, and in the stats.
Recorded(o, k, outcome) ==
    IF outcome = "ok"
    THEN [o EXCEPT !.recipients[k + 1].status = "sent",
                   !.recipients[k + 1].sentAt = TRUE,
                   !.stats.sent = @ + 1,
                   !.stats.pending = @ - 1]
    ELSE [o EXCEPT !.recipients[k + 1].status = "failed",
                   !.recipients[k + 1].error = TRUE,
                   !.stats.failed = @ + 1,
                   !.stats.pending = @ - 1]

\* A mutant of Advance: the cursor stays where it is.
AdvanceStays(o) == o

\* Line 830: broadcast.currentIndex++
Advance(o) == [o EXCEPT !.currentIndex = @ + 1]

sendReturns(b, lp, outcome) ==
    /\ UNCHANGED <<svars, rvars, storage, io, lvars>>
    /\ lp \in BagToSet(loops[b])
    /\ lp.pc = "send"
    /\ LET o == Recorded(bcast[b], lp.k, outcome)
           n == lp.messagesInBatch + 1
       IN  /\ bcast' = [bcast EXCEPT ![b] = Advance(o)]
           /\ loops' = [loops EXCEPT ![b] =
                          AddLoop(RemoveLoop(@, lp),
                                  [pc |-> IF n >= batchSize THEN "batchDelay" ELSE "delay",
                                   k |-> 0, messagesInBatch |-> n])]
    /\ broadcasts' = broadcasts \cup {b}
    /\ persistedB' = SaveBroadcasts(broadcasts', bcast')
    /\ emitted' = [emitted EXCEPT ![b] = Emit(@, bcast'[b], FALSE)]
    /\ last' = [op |-> "sendReturns", id |-> b, success |-> outcome = "ok"]
    /\ UNCHANGED <<activeQueues, sendCount, whatsappManagerB, clock, session>>

\* The delay of activation lp elapses: the loop goes to its head.
wake(b, lp) ==
    /\ UNCHANGED <<svars, rvars, storage, io, lvars>>
    /\ lp \in BagToSet(loops[b])
    /\ lp.pc \in {"delay", "batchDelay"}
    /\ ContinueLoop(b, RemoveLoop(loops[b], lp), bcast[b],
                    IF lp.pc = "batchDelay" THEN 0 ELSE lp.messagesInBatch,
                    activeQueues, persistedB, clock)
    /\ last' = [op |-> "wake", id |-> b, success |-> TRUE]
    /\ UNCHANGED <<whatsappManagerB, clock, session>>

pause(b) ==
    /\ UNCHANGED <<svars, rvars, storage, io, lvars>>
    /\ IF b \in broadcasts /\ bcast[b].status = "running"
       THEN /\ bcast' = [bcast EXCEPT ![b].status = "paused"]
            /\ persistedB' = SaveBroadcasts(broadcasts, bcast')
            /\ last' = [op |-> "pause", id |-> b, success |-> TRUE]
            /\ UNCHANGED <<broadcasts, activeQueues, loops, sendCount,
                           whatsappManagerB, emitted, clock, session>>
       ELSE /\ last' = [op |-> "pause", id |-> b, success |-> FALSE]
            /\ UNCHANGED <<bvars, session>>

\* A mutant of CancelAllowed: a completed campaign can be cancelled.
CancelAllowedAnyStatus(b) == b \in broadcasts

\* Lines 904-911: the early returns of cancel.
CancelAllowed(b) == b \in broadcasts /\ bcast[b].status # "completed"

cancel(b) ==
    /\ UNCHANGED <<svars, rvars, storage, io, lvars>>
    /\ IF CancelAllowed(b)
       THEN /\ bcast' = [bcast EXCEPT ![b].status = "cancelled"]
            /\ persistedB' = SaveBroadcasts(broadcasts, bcast')
            /\ last' = [op |-> "cancel", id |-> b, success |-> TRUE]
            /\ UNCHANGED <<broadcasts, activeQueues, loops, sendCount,
                           whatsappManagerB, emitted, clock, session>>
       ELSE /\ last' = [op |-> "cancel", id |-> b, success |-> FALSE]
            /\ UNCHANGED <<bvars, session>>

delete(b) ==
    /\ UNCHANGED <<svars, rvars, storage, io, lvars>>
    /\ IF b \in broadcasts /\ bcast[b].status # "running"
       THEN /\ broadcasts' = broadcasts \ {b}
            /\ persistedB' = SaveBroadcasts(broadcasts', bcast)
            /\ last' = [op |-> "delete", id |-> b, success |-> TRUE]
            /\ UNCHANGED <<bcast, activeQueues, loops, sendCount,
                           whatsappManagerB, emitted, clock, session>>
       ELSE /\ last' = [op |-> "delete", id |-> b, success |-> FALSE]
            /\ UNCHANGED <<bvars, session>>

\* The process stops and is started again: the constructor of a new
\* BroadcastService runs _loadBroadcasts, which puts every record of the file
\* into the Map as it was written. The worker loops, this.activeQueues and the
\* manager reference of the old process are gone, and the sessions of the new
\* process are not yet open. An id that was given out is not given out again.
restart ==
    /\ UNCHANGED <<svars, rvars, storage, io, lvars>>
    /\ broadcasts' = {b \in BIds : persistedB[b].status # "none"}
    /\ bcast' = [b \in BIds |-> IF persistedB[b].status # "none" THEN persistedB[b]
                                ELSE bcast[b]]
    /\ activeQueues' = {}
    /\ loops' = [b \in BIds |-> EmptyBag]
    /\ whatsappManagerB' = FALSE
    /\ session' = "absent"
    /\ last' = [op |-> "restart", id |-> "-", success |-> TRUE]
    /\ UNCHANGED <<persistedB, sendCount, emitted, clock>>

\* ======================================================= SchedulerService
Repeats == {"once", "daily"}

\* scheduledAt.t is the distance of the date from the instant of the create or
\* update call that stored it.
NoSchedule ==
    [status |-> "none", repeat |-> "once", enabled |-> FALSE,
     executionCount |-> 0, lastExecuted |-> FALSE, lastError |-> FALSE,
     scheduledAt |-> [kind |-> "date", t |-> 0, iso |-> TRUE]]

\* _saveSchedules: the file is rewritten with the values of the Map; an error
\* of the write is caught and logged.
SaveSchedules(keys, objs) ==
    IF storage = "failing" THEN persistedS
    ELSE [i \in SIds |-> IF i \in keys THEN objs[i] ELSE NoSchedule]

\* new Date(x).toISOString() for a parseable x.
ToISOString(at) == [kind |-> "date", t |-> at.t, iso |-> TRUE]

\* isNaN(new Date(x).getTime())
IsNaNDate(at) == at.kind # "date"

\* _getCronExpression and cron.schedule: the minute, hour and day of an
\* unparseable scheduledAt are NaN, cron.schedule throws on that expression
\* and _startSchedule catches the error.
CronValid(s) == ~IsNaNDate(s.scheduledAt)

\* _startSchedule(schedule): the job of the id is stopped and replaced.
StartSchedule(js, i, s) ==
    IF CronValid(s) THEN js \cup {i} ELSE js \ {i}

\* Lines 626-631 and 675-680: after a save, (re)install or remove the job.
RestartOrStop(js, i, s) ==
    IF s.enabled /\ whatsappManagerS THEN StartSchedule(js, i, s)
    ELSE IF ~s.enabled /\ i \in js THEN js \ {i}
    ELSE js

\* setWhatsAppManager(manager), with _startAllSchedules.
setWhatsAppManagerS ==
    /\ UNCHANGED <<bvars, rvars, session, storage, io, lvars>>
    /\ ~whatsappManagerS
    /\ whatsappManagerS' = TRUE
    /\ jobs' = {i \in schedules :
                  /\ sched[i].enabled
                  /\ sched[i].status # "completed"
                  /\ CronValid(sched[i])}
    /\ last' = [op |-> "setWhatsAppManager", id |-> "-", success |-> TRUE]
    /\ UNCHANGED <<schedules, sched, persistedS, executions, sends>>

\* The scheduledAt values a caller passes: none, an unparseable string, or a
\* date not yet in ISO form. A date is given by t, its distance from
\* the instant new Date() returns during the call: before (-1), that very
\* instant (0) or after (1).
ScheduledAtInputs ==
    {[kind |-> "missing", t |-> 0, iso |-> FALSE],
     [kind |-> "invalid", t |-> 0, iso |-> FALSE]}
        \cup {[kind |-> "date", t |-> u, iso |-> FALSE] : u \in {0 - 1, 0, 1}}

\* The required field a create call leaves out, if any (scheduledAt apart).
MissingFields == {"none", "sessionId", "chatId", "message"}

\* A mutant of CreateResult: a once schedule at the current instant passes.
CreateResultOnlyPast(missing, at, repeat) ==
    IF missing # "none" \/ at.kind = "missing"
    THEN "Missing required fields: sessionId, chatId, message, scheduledAt"
    ELSE IF IsNaNDate(at) THEN "Invalid scheduledAt date format"
    ELSE IF repeat = "once" /\ at.t < 0 THEN "Scheduled time must be in the future"
    ELSE "Schedule created"

\* Lines 491-504 and 533: the validation of create, by the message returned.
CreateResult(missing, at, repeat) ==
    IF missing # "none" \/ at.kind = "missing"
    THEN "Missing required fields: sessionId, chatId, message, scheduledAt"
    ELSE IF IsNaNDate(at) THEN "Invalid scheduledAt date format"
    ELSE IF repeat = "once" /\ at.t <= 0 THEN "Scheduled time must be in the future"
    ELSE "Schedule created"

NewSchedule(at, repeat) ==
    [status |-> "pending", repeat |-> repeat, enabled |-> TRUE,
     executionCount |-> 0, lastExecuted |-> FALSE, lastError |-> FALSE,
     scheduledAt |-> ToISOString(at)]

\* create(options); i is the id uuidv4() returns when the options are valid.
createSchedule(i, missing, at, repeat) ==
    /\ UNCHANGED <<bvars, rvars, session, storage, io, lvars>>
    /\ IF CreateResult(missing, at, repeat) # "Schedule created"
       THEN /\ UNCHANGED <<schedules, sched, persistedS, jobs>>
            /\ last' = [op |-> "createSchedule", id |-> "-", success |-> FALSE,
                        message |-> CreateResult(missing, at, repeat)]
       ELSE /\ sched[i].status = "none"
            /\ sched' = [sched EXCEPT ![i] = NewSchedule(at, repeat)]
            /\ schedules' = schedules \cup {i}
            /\ persistedS' = SaveSchedules(schedules', sched')
            /\ jobs' = IF whatsappManagerS THEN StartSchedule(jobs, i, sched'[i])
                       ELSE jobs
            /\ last' = [op |-> "createSchedule", id |-> i, success |-> TRUE,
                        message |-> "Schedule created"]
    /\ UNCHANGED <<executions, sends, whatsappManagerS>>

\* The updates object of update(id, updates): a field is "absent" (undefined)
\* or carries a value. The record keeps the fields the Scheduler's control
\* flow reads; name, chatId, message, typingTime and timezone are copied by the
\* same loop as repeat and read only as arguments of the send.
UpdateInputs ==
    [scheduledAt : {[kind |-> "absent", t |-> 0, iso |-> FALSE],
                    [kind |-> "invalid", t |-> 0, iso |-> FALSE],
                    [kind |-> "date", t |-> 1, iso |-> FALSE]},
     repeat : {"absent"} \cup Repeats,
     enabled : {"absent", "true", "false"}]

\* Lines 605-610: the loop over allowedFields.
ApplyUpdates(s, u) ==
    [s EXCEPT !.scheduledAt = IF u.scheduledAt.kind = "absent" THEN @
                              ELSE u.scheduledAt,
              !.repeat = IF u.repeat = "absent" THEN @ ELSE u.repeat,
              !.enabled = IF u.enabled = "absent" THEN @ ELSE u.enabled = "true"]

\* A mutant of UpdateRejected: a completed schedule is updated like any other.
UpdateRejectedOnlyUnknown(i) == i \notin schedules

\* Lines 594-602: the early returns of update.
UpdateRejected(i) == i \notin schedules \/ sched[i].status = "completed"

updateSchedule(i, u) ==
    /\ UNCHANGED <<bvars, rvars, session, storage, io, lvars>>
    /\ IF UpdateRejected(i)
       THEN /\ UNCHANGED <<schedules, sched, persistedS, jobs>>
            /\ last' = [op |-> "updateSchedule", id |-> i, success |-> FALSE]
       ELSE IF u.scheduledAt.kind # "absent" /\ IsNaNDate(u.scheduledAt)
       THEN /\ sched' = [sched EXCEPT ![i] = ApplyUpdates(@, u)]
            /\ UNCHANGED <<schedules, persistedS, jobs>>
            /\ last' = [op |-> "updateSchedule", id |-> i, success |-> FALSE]
       ELSE /\ sched' = [sched EXCEPT ![i] =
                           LET s == ApplyUpdates(@, u) IN
                           IF u.scheduledAt.kind = "absent" THEN s
                           ELSE [s EXCEPT !.scheduledAt = ToISOString(u.scheduledAt)]]
            /\ persistedS' = SaveSchedules(schedules, sched')
            /\ jobs' = RestartOrStop(jobs, i, sched'[i])
            /\ last' = [op |-> "updateSchedule", id |-> i, success |-> TRUE]
            /\ UNCHANGED schedules
    /\ UNCHANGED <<executions, sends, whatsappManagerS>>

\* A mutant of deleteSchedule: the cron job of the schedule is left alive.
deleteScheduleKeepsJob(i) ==
    /\ UNCHANGED <<bvars, rvars, session, storage, io, lvars>>
    /\ IF i \notin schedules
       THEN /\ UNCHANGED <<schedules, persistedS>>
            /\ last' = [op |-> "deleteSchedule", id |-> i, success |-> FALSE]
       ELSE /\ schedules' = schedules \ {i}
            /\ persistedS' = SaveSchedules(schedules', sched)
            /\ last' = [op |-> "deleteSchedule", id |-> i, success |-> TRUE]
    /\ UNCHANGED <<sched, jobs, executions, sends, whatsappManagerS>>

\* delete(id)
deleteSchedule(i) ==
    /\ UNCHANGED <<bvars, rvars, session, storage, io, lvars>>
    /\ IF i \notin schedules
       THEN /\ UNCHANGED <<schedules, persistedS, jobs>>
            /\ last' = [op |-> "deleteSchedule", id |-> i, success |-> FALSE]
       ELSE /\ jobs' = jobs \ {i}
            /\ schedules' = schedules \ {i}
            /\ persistedS' = SaveSchedules(schedules', sched)
            /\ last' = [op |-> "deleteSchedule", id |-> i, success |-> TRUE]
    /\ UNCHANGED <<sched, executions, sends, whatsappManagerS>>

\* A mutant of toggleSchedule: a write error undoes the toggle and fails it.
toggleScheduleFailsOnWriteError(i) ==
    /\ UNCHANGED <<bvars, rvars, session, storage, io, lvars>>
    /\ IF i \notin schedules \/ storage = "failing"
       THEN /\ UNCHANGED <<sched, persistedS, jobs>>
            /\ last' = [op |-> "toggleSchedule", id |-> i, success |-> FALSE]
       ELSE /\ sched' = [sched EXCEPT ![i].enabled = ~@]
            /\ persistedS' = SaveSchedules(schedules, sched')
            /\ jobs' = RestartOrStop(jobs, i, sched'[i])
            /\ last' = [op |-> "toggleSchedule", id |-> i, success |-> TRUE]
    /\ UNCHANGED <<schedules, executions, sends, whatsappManagerS>>

\* toggle(id)
toggleSchedule(i) ==
    /\ UNCHANGED <<bvars, rvars, session, storage, io, lvars>>
    /\ IF i \notin schedules
       THEN /\ UNCHANGED <<sched, persistedS, jobs>>
            /\ last' = [op |-> "toggleSchedule", id |-> i, success |-> FALSE]
       ELSE /\ sched' = [sched EXCEPT ![i].enabled = ~@]
            /\ persistedS' = SaveSchedules(schedules, sched')
            /\ jobs' = RestartOrStop(jobs, i, sched'[i])
            /\ last' = [op |-> "toggleSchedule", id |-> i, success |-> TRUE]
    /\ UNCHANGED <<schedules, executions, sends, whatsappManagerS>>

\* A mutant of RecordError: the failed schedule is marked completed.
RecordErrorCompletes(i) ==
    IF i \in schedules
    THEN /\ sched' = [sched EXCEPT ![i].lastError = TRUE, ![i].status = "completed"]
         /\ persistedS' = SaveSchedules(schedules, sched')
    ELSE UNCHANGED <<sched, persistedS>>

\* The catch block of _executeSchedule: lines 467-480.
RecordError(i) ==
    IF i \in schedules
    THEN /\ sched' = [sched EXCEPT ![i].lastError = TRUE]
         /\ persistedS' = SaveSchedules(schedules, sched')
    ELSE UNCHANGED <<sched, persistedS>>

\* The trigger of schedule i fires: _executeSchedule up to its await. Without a
\* connected session the error is recorded at once; otherwise the send is issued.
fire(i) ==
    /\ UNCHANGED <<bvars, rvars, session, storage, io, lvars>>
    /\ i \in jobs
    /\ IF ~whatsappManagerS \/ session = "absent" \/ session # "connected"
       THEN /\ RecordError(i)
            /\ UNCHANGED <<executions, sends>>
            /\ last' = [op |-> "fire", id |-> i, success |-> FALSE]
       ELSE /\ sends[i] < MaxFires
            /\ executions[i] < MaxInFlight
            /\ sends' = [sends EXCEPT ![i] = @ + 1]
            /\ executions' = [executions EXCEPT ![i] = @ + 1]
            /\ UNCHANGED <<sched, persistedS>>
            /\ last' = [op |-> "fire", id |-> i, success |-> TRUE]
    /\ UNCHANGED <<schedules, jobs, whatsappManagerS>>

\* A mutant of JobsAfterSuccess: the cron job of a once schedule is left alive.
JobsAfterSuccessKept(i) == jobs

\* Lines 450-459: a once schedule's job is stopped when its send has resolved.
JobsAfterSuccess(i) ==
    IF sched[i].repeat = "once" THEN jobs \ {i} ELSE jobs

\* Lines 444-452: the record after a send that resolved.
Executed(s) ==
    LET e == [s EXCEPT !.lastExecuted = TRUE, !.executionCount = @ + 1] IN
    IF s.repeat = "once"
    THEN [e EXCEPT !.status = "completed", !.enabled = FALSE]
    ELSE e

\* The awaited sendTextMessage of an execution of schedule i resolves (with a
\* successful or an unsuccessful result: the result is not inspected) or throws.
sendResolves(i, outcome) ==
    /\ UNCHANGED <<bvars, rvars, session, storage, io, lvars>>
    /\ executions[i] > 0
    /\ executions' = [executions EXCEPT ![i] = @ - 1]
    /\ IF outcome = "throw"
       THEN /\ RecordError(i)
            /\ UNCHANGED jobs
       ELSE IF i \in schedules
            THEN /\ sched' = [sched EXCEPT ![i] = Executed(@)]
                 /\ jobs' = JobsAfterSuccess(i)
                 /\ persistedS' = SaveSchedules(schedules, sched')
            ELSE UNCHANGED <<sched, jobs, persistedS>>
    /\ last' = [op |-> "sendResolves", id |-> i, success |-> outcome # "throw"]
    /\ UNCHANGED <<schedules, sends, whatsappManagerS>>

\* ------------------------------------------------ the trigger of a schedule
\* An instant is a number of minutes since the start of a month; a time zone
\* is given by its offset from UTC in minutes (zones without daylight saving).
Zones == {"UTC", "Asia/Jakarta", "America/Bogota", "Asia/Kolkata"}

ZoneOffset(zone) ==
    CASE zone = "UTC" -> 0
      [] zone = "Asia/Jakarta" -> 420
      [] zone = "America/Bogota" -> 0 - 300
      [] zone = "Asia/Kolkata" -> 330

\* Date.prototype.getMinutes, getHours and getDate in the zone of the process.
GetMinutes(t, zone) == (t + ZoneOffset(zone)) % 60

GetHours(t, zone) == ((t + ZoneOffset(zone)) \div 60) % 24

GetDate(t, zone) == ((t + ZoneOffset(zone)) \div 1440) + 1

\* _getCronExpression for repeat = 'once': minute, hour and day of the month of
\* scheduledAt as the Date getters give them in the zone of the server
\* process. All instants lie in one month, so the month field is the same for
\* all of them.
GetCronExpression(scheduledAt, serverZone) ==
    [minute |-> GetMinutes(scheduledAt, serverZone),
     hour |-> GetHours(scheduledAt, serverZone),
     dayOfMonth |-> GetDate(scheduledAt, serverZone)]

\* cron.schedule(expression, fn, {timezone}): the job fires at the instants
\* whose minute, hour and day in that zone are those of the expression.
CronMatches(expression, timezone, u) ==
    /\ GetMinutes(u, timezone) = expression.minute
    /\ GetHours(u, timezone) = expression.hour
    /\ GetDate(u, timezone) = expression.dayOfMonth

Instants == 0..(5 * 1440 - 1)

FirstFire(expression, timezone) ==
    CHOOSE u \in Instants : CronMatches(expression, timezone, u)

\* The scheduledAt instants: 00:00, 10:30 and 23:59 of the second and third
\* day of the month.
ScheduledInstants ==
    {(d - 1) * 1440 + hm : d \in {2, 3}, hm \in {0, 10 * 60 + 30, 23 * 60 + 59}}

\* _startSchedule(schedule) of a once schedule: the expression and the zone
\* given to cron.schedule (Asia/Jakarta when the schedule has no timezone).
\* The arguments are in last, the first fire of the job is left in
\* last.firstFire.
startScheduleOnce ==
    /\ last.op = "call"
    /\ LET timezone == IF last.timezone = "" THEN "Asia/Jakarta" ELSE last.timezone IN
       last' = [last EXCEPT
                  !.op = "_startSchedule",
                  !.firstFire = FirstFire(GetCronExpression(last.scheduledAt,
                                                            last.serverZone),
                                          timezone)]
    /\ UNCHANGED <<bvars, svars, rvars, session, storage, io, lvars>>

\* ======================================================= AutoReplyService
\* A string is the sequence of its characters; "" is <<>>.
\* A mutant of ToLowerCase: the case is kept.
KeepCase(t) == t

ToLowerCase(t) ==
    [n \in 1..Len(t) |-> IF t[n] = "A" THEN "a" ELSE IF t[n] = "B" THEN "b" ELSE t[n]]

StartsWith(t, kw) == Len(kw) <= Len(t) /\ SubSeq(t, 1, Len(kw)) = kw

EndsWith(t, kw) == Len(kw) <= Len(t) /\ SubSeq(t, Len(t) - Len(kw) + 1, Len(t)) = kw

Includes(t, kw) == \E n \in 0..(Len(t) - Len(kw)) : SubSeq(t, n + 1, n + Len(kw)) = kw

\* options.f, with the default d when the field is undefined.
Opt(options, f, d) == IF f \in DOMAIN options THEN options[f] ELSE d

\* options.f || d for a string field.
OrDefault(options, f, d) ==
    IF f \notin DOMAIN options \/ options[f] = "" THEN d ELSE options[f]

\* {...old, ...new}
Spread(old, new) ==
    [f \in DOMAIN old \cup DOMAIN new |-> IF f \in DOMAIN new THEN new[f] ELSE old[f]]

\* _saveRules: the file is rewritten with the values of the Map; an error of
\* the write is caught and logged.
SaveRules(rs) == IF storage = "failing" THEN persistedR ELSE rs

RuleIndex(id) == {n \in 1..Len(rules) : rules[n].id = id}

\* A chat id user@server is the pair of its parts.
PersonalChat == [user |-> "628", server |-> "s.whatsapp.net"]
GroupChat == [user |-> "120", server |-> "g.us"]
StatusBroadcast == [user |-> "status", server |-> "broadcast"]

\* chatId.endsWith('@g.us')
IsGroup(chatId) == chatId.server = "g.us"

\* chatId.replace('@s.whatsapp.net', '').replace('@g.us', '')
SenderNumber(chatId) ==
    IF chatId.server \in {"s.whatsapp.net", "g.us"} THEN chatId.user ELSE "status@broadcast"

\* message.message: a field that is absent reads as the empty string, and an
\* absent message.message as a body with no field.
Body(conversation, extendedText, imageCaption) ==
    [conversation |-> conversation, extendedText |-> extendedText,
     imageCaption |-> imageCaption, videoCaption |-> <<>>, documentCaption |-> <<>>]

Message(fromMe, remoteJid, message) ==
    [fromMe |-> fromMe, remoteJid |-> remoteJid, message |-> message]

\* The inbound messages: texts in a personal and in a group chat, in each
\* field a text is read from, a message without text, a message of the
\* account itself and a status broadcast.
Messages ==
    {Message(FALSE, PersonalChat, Body(<<"a">>, <<>>, <<>>)),
     Message(FALSE, PersonalChat, Body(<<"b">>, <<>>, <<>>)),
     Message(FALSE, GroupChat, Body(<<"a">>, <<>>, <<>>)),
     Message(FALSE, PersonalChat, Body(<<>>, <<"A", "b">>, <<>>)),
     Message(FALSE, GroupChat, Body(<<>>, <<>>, <<"b", "a">>)),
     Message(FALSE, PersonalChat, Body(<<>>, <<>>, <<>>)),
     Message(TRUE, PersonalChat, Body(<<"a">>, <<>>, <<>>)),
     Message(FALSE, StatusBroadcast, Body(<<"a">>, <<>>, <<>>))}

\* The sessions that receive messages.
Sessions == {"s1", "s2"}

\* now.getHours() * 60 + now.getMinutes() at the time of a call
Nows == {720}

\* _extractMessageText: the first non-empty text, or null (here <<>>, which
\* the caller also reads as no text).
ExtractMessageText(message) ==
    LET msg == message.message IN
    IF msg.conversation # <<>> THEN msg.conversation
    ELSE IF msg.extendedText # <<>> THEN msg.extendedText
    ELSE IF msg.imageCaption # <<>> THEN msg.imageCaption
    ELSE IF msg.videoCaption # <<>> THEN msg.videoCaption
    ELSE msg.documentCaption

\* A mutant of RegExpThrows: every pattern and every flag compiles.
RegExpNeverThrows(pattern, flags) == FALSE

\* new RegExp(pattern, flags) for a pattern of literal characters or the
\* unbalanced "(", and regex.test(messageText).
RegExpThrows(pattern, flags) ==
    \/ \E n \in 1..Len(pattern) : pattern[n] = "("
    \/ flags \notin {"i", "g"}

RegExpTest(pattern, flags, messageText) ==
    IF flags = "i" THEN Includes(ToLowerCase(messageText), ToLowerCase(pattern))
    ELSE Includes(messageText, pattern)

\* _matchesTrigger(trigger, messageText)
MatchesTrigger(trigger, messageText) ==
    LET text == ToLowerCase(messageText) IN
    CASE trigger.type = "all" -> TRUE
      [] trigger.type = "keyword" ->
            \E n \in 1..Len(trigger.keywords) :
                LET kw == ToLowerCase(trigger.keywords[n]) IN
                CASE trigger.matchType = "exact" -> text = kw
                  [] trigger.matchType = "startsWith" -> StartsWith(text, kw)
                  [] trigger.matchType = "endsWith" -> EndsWith(text, kw)
                  [] OTHER -> Includes(text, kw)
      [] trigger.type = "regex" ->
            LET flags == IF trigger.flags = "" THEN "i" ELSE trigger.flags IN
            /\ ~RegExpThrows(trigger.pattern, flags)
            /\ RegExpTest(trigger.pattern, flags, messageText)
      [] OTHER -> FALSE

\* The texts and the keyword triggers _matchesTrigger is evaluated on.
Chars == {"a", "b", "A"}

StringsUpTo(len) == UNION {[1..n -> Chars] : n \in 0..len}

KeywordLists ==
    {<<>>} \cup {<<k>> : k \in StringsUpTo(MaxKeywordLen)}
           \cup {<<k, l>> : k \in StringsUpTo(MaxKeywordLen), l \in StringsUpTo(MaxKeywordLen)}

\* "other" is a matchType none of the cases of the switch names.
MatchTypes == {"contains", "exact", "startsWith", "endsWith", "other"}

KeywordTriggers ==
    {[type |-> "keyword", keywords |-> ks, matchType |-> mt,
      pattern |-> <<>>, flags |-> "i"] : ks \in KeywordLists, mt \in MatchTypes}

\* A call of _matchesTrigger(trigger, messageText): its arguments are in last,
\* its result is left in last.success.
matchesTrigger ==
    /\ last.op = "call"
    /\ last' = [last EXCEPT !.op = "_matchesTrigger",
                            !.success = MatchesTrigger(last.trigger, last.text)]
    /\ UNCHANGED <<bvars, svars, rvars, session, storage, io, lvars>>

\* A mutant of MinuteOfDay: the minutes of the time are dropped.
HourOfDay(hhmm) == hhmm[1] * 60

\* "HH:MM".split(':').map(Number), then hour * 60 + minute; a time of day is
\* the pair <<HH, MM>>.
MinuteOfDay(hhmm) == hhmm[1] * 60 + hhmm[2]

\* _matchesRule(rule, messageText, chatId, isGroup, message); now is the
\* minute of the day new Date() gives.
MatchesRule(rule, messageText, chatId, isGroup, now) ==
    LET conditions == rule.conditions IN
    IF conditions.chatType = "personal" /\ isGroup THEN FALSE
    ELSE IF conditions.chatType = "group" /\ ~isGroup THEN FALSE
    ELSE IF /\ conditions.timeRange.enabled
            /\ \/ now < MinuteOfDay(conditions.timeRange.start)
               \/ now > MinuteOfDay(conditions.timeRange.end)
         THEN FALSE
    ELSE IF /\ Len(conditions.excludeContacts) > 0
            /\ \E n \in 1..Len(conditions.excludeContacts) :
                  conditions.excludeContacts[n] = SenderNumber(chatId)
         THEN FALSE
    ELSE MatchesTrigger(rule.trigger, messageText)

\* A mutant of Applicable: the rules of other sessions apply too.
ApplicableToAll(rule, sessionId) == TRUE

\* Line 212: the rules of the session, of every session, or of no session.
Applicable(rule, sessionId) ==
    rule.sessionId = "" \/ rule.sessionId = sessionId \/ rule.sessionId = "*"

\* A mutant of Sort: the rules stay in the order of the Map.
SortKeepsOrder(rs) == rs

\* Line 213: Array.prototype.sort with (b.priority || 0) - (a.priority || 0) is
\* stable, so rules of one priority keep the order of the Map. A priority is a
\* number here, and 0 || 0 is 0.
\* A mutant of Insert: a rule goes before the rules of its own priority.
RECURSIVE InsertBeforeEqual(_, _)
InsertBeforeEqual(r, sorted) ==
    IF sorted = <<>> THEN <<r>>
    ELSE IF Head(sorted).priority > r.priority
         THEN <<Head(sorted)>> \o InsertBeforeEqual(r, Tail(sorted))
         ELSE <<r>> \o sorted

RECURSIVE Insert(_, _)
Insert(r, sorted) ==
    IF sorted = <<>> THEN <<r>>
    ELSE IF Head(sorted).priority >= r.priority
         THEN <<Head(sorted)>> \o Insert(r, Tail(sorted))
         ELSE <<r>> \o sorted

RECURSIVE Sort(_)
Sort(rs) ==
    IF rs = <<>> THEN <<>>
    ELSE Insert(rs[Len(rs)], Sort(SubSeq(rs, 1, Len(rs) - 1)))

\* Lines 210-213
ApplicableRules(sessionId) ==
    Sort(SelectSeq(SelectSeq(rules, LAMBDA r : r.enabled),
                   LAMBDA r : Applicable(r, sessionId)))

\* A mutant of Skipped: status broadcasts and messages without text go on.
SkippedOnlyOwn(message) == message.fromMe

\* Lines 197-207: the messages processMessage drops before it looks at a rule.
Skipped(message) ==
    \/ message.fromMe
    \/ message.remoteJid = StatusBroadcast
    \/ ExtractMessageText(message) = <<>>

\* processMessage(sessionId, message); the rule id of the action returned, or
\* "null", is left in last.id.
processMessage(sessionId, message, now) ==
    /\ UNCHANGED <<bvars, svars, session, storage, io, lvars>>
    /\ LET chatId == message.remoteJid
           messageText == ExtractMessageText(message)
           applicableRules == IF Skipped(message) THEN <<>>
                              ELSE ApplicableRules(sessionId)
           matching == SelectSeq(applicableRules,
                           LAMBDA r : MatchesRule(r, messageText, chatId,
                                                  IsGroup(chatId), now))
       IN  IF matching = <<>>
           THEN /\ UNCHANGED rvars
                /\ last' = [op |-> "processMessage", id |-> "null", success |-> FALSE]
           ELSE LET rule == Head(matching) IN
                /\ rule.matchCount < MaxMatches
                /\ rules' = [n \in 1..Len(rules) |->
                               IF rules[n].id = rule.id
                               THEN [rules[n] EXCEPT !.matchCount = @ + 1,
                                                     !.lastMatchedAt = TRUE]
                               ELSE rules[n]]
                /\ persistedR' = SaveRules(rules')
                /\ last' = [op |-> "processMessage", id |-> rule.id, success |-> TRUE]
                /\ UNCHANGED nextRuleId

\* The options of create. name and action stand for what the validation reads
\* of them: whether name is given, and whether action is absent, lacks its
\* message, or is complete.
RuleOptions ==
    {[name |-> TRUE, action |-> "ok", priority |-> 5, trigger |-> [type |-> "all"]],
     [name |-> TRUE, action |-> "ok", priority |-> 10, trigger |-> [type |-> "all"]],
     [name |-> TRUE, action |-> "ok", priority |-> 10, sessionId |-> "s2",
      trigger |-> [type |-> "keyword", keywords |-> << <<"A">> >>],
      conditions |-> [chatType |-> "group"]],
     [name |-> FALSE, action |-> "ok", trigger |-> [type |-> "all"]],
     [name |-> TRUE, action |-> "ok"],
     [name |-> TRUE, action |-> "absent", trigger |-> [type |-> "all"]],
     [name |-> TRUE, action |-> "ok", trigger |-> [type |-> ""]],
     [name |-> TRUE, action |-> "noMessage", trigger |-> [type |-> "all"]]}

\* Lines 385-395 and 433: the validation of create, by the message returned.
CreateRuleResult(options) ==
    IF ~options.name \/ "trigger" \notin DOMAIN options \/ options.action = "absent"
    THEN "Missing required fields: name, trigger, action"
    ELSE IF options.trigger.type = "" THEN "Trigger must have a type"
    ELSE IF options.action = "noMessage" THEN "Action must have a message"
    ELSE "Rule created"

\* Lines 398-428
NewRule(id, options) ==
    LET trigger == options.trigger
        conditions == Opt(options, "conditions", [chatType |-> ""])
    IN  [id |-> id,
         sessionId |-> Opt(options, "sessionId", "*"),
         trigger |-> [type |-> trigger.type,
                      keywords |-> Opt(trigger, "keywords", <<>>),
                      matchType |-> OrDefault(trigger, "matchType", "contains"),
                      pattern |-> Opt(trigger, "pattern", <<>>),
                      flags |-> OrDefault(trigger, "flags", "i")],
         conditions |-> [chatType |-> OrDefault(conditions, "chatType", "all"),
                         timeRange |->
                             IF "timeRange" \in DOMAIN conditions
                             THEN [enabled |-> Opt(conditions.timeRange, "enabled", FALSE),
                                   start |-> Opt(conditions.timeRange, "start", <<0, 0>>),
                                   end |-> Opt(conditions.timeRange, "end", <<23, 59>>)]
                             ELSE [enabled |-> FALSE, start |-> <<0, 0>>,
                                   end |-> <<23, 59>>],
                         excludeContacts |-> Opt(conditions, "excludeContacts", <<>>)],
         priority |-> Opt(options, "priority", 0),
         enabled |-> TRUE,
         matchCount |-> 0,
         lastMatchedAt |-> FALSE]

\* create(options)
createRule(options) ==
    /\ UNCHANGED <<bvars, svars, session, storage, io, lvars>>
    /\ IF CreateRuleResult(options) # "Rule created"
       THEN /\ UNCHANGED rvars
            /\ last' = [op |-> "createRule", id |-> "-", success |-> FALSE]
       ELSE /\ nextRuleId < Len(RuleIds)
            /\ nextRuleId' = nextRuleId + 1
            /\ rules' = Append(rules, NewRule(RuleIds[nextRuleId'], options))
            /\ persistedR' = SaveRules(rules')
            /\ last' = [op |-> "createRule", id |-> RuleIds[nextRuleId'],
                        success |-> TRUE]

\* The updates objects of update(id, updates).
RuleUpdates ==
    {[priority |-> 10],
     [enabled |-> FALSE],
     [sessionId |-> ""],
     [conditions |-> [chatType |-> "personal"]]}

\* A mutant of ApplyRuleUpdates: an update starts the statistics of the rule anew.
ApplyRuleUpdatesResetsCount(rule, updates) ==
    [rule EXCEPT !.sessionId = Opt(updates, "sessionId", @),
                 !.priority = Opt(updates, "priority", @),
                 !.enabled = Opt(updates, "enabled", @),
                 !.matchCount = 0,
                 !.lastMatchedAt = FALSE]

\* Lines 503-519: the fields of updates are copied or spread into the rule.
ApplyRuleUpdates(rule, updates) ==
    LET conditions ==
            IF "conditions" \notin DOMAIN updates THEN rule.conditions
            ELSE LET c == Spread(rule.conditions, updates.conditions) IN
                 IF "timeRange" \in DOMAIN updates.conditions
                 THEN [c EXCEPT !.timeRange =
                          Spread(rule.conditions.timeRange,
                                 updates.conditions.timeRange)]
                 ELSE c
    IN  [rule EXCEPT !.sessionId = Opt(updates, "sessionId", @),
                     !.priority = Opt(updates, "priority", @),
                     !.enabled = Opt(updates, "enabled", @),
                     !.trigger = IF "trigger" \in DOMAIN updates
                                 THEN Spread(@, updates.trigger) ELSE @,
                     !.conditions = conditions]

\* update(id, updates)
updateRule(id, updates) ==
    /\ UNCHANGED <<bvars, svars, session, storage, io, lvars>>
    /\ IF RuleIndex(id) = {}
       THEN /\ UNCHANGED rvars
            /\ last' = [op |-> "updateRule", id |-> id, success |-> FALSE]
       ELSE /\ rules' = [n \in 1..Len(rules) |->
                           IF rules[n].id = id THEN ApplyRuleUpdates(rules[n], updates)
                           ELSE rules[n]]
            /\ persistedR' = SaveRules(rules')
            /\ last' = [op |-> "updateRule", id |-> id, success |-> TRUE]
            /\ UNCHANGED nextRuleId

\* delete(id)
deleteRule(id) ==
    /\ UNCHANGED <<bvars, svars, session, storage, io, lvars>>
    /\ IF RuleIndex(id) = {}
       THEN /\ UNCHANGED rvars
            /\ last' = [op |-> "deleteRule", id |-> id, success |-> FALSE]
       ELSE /\ rules' = SelectSeq(rules, LAMBDA r : r.id # id)
            /\ persistedR' = SaveRules(rules')
            /\ last' = [op |-> "deleteRule", id |-> id, success |-> TRUE]
            /\ UNCHANGED nextRuleId

\* toggle(id)
toggleRule(id) ==
    /\ UNCHANGED <<bvars, svars, session, storage, io, lvars>>
    /\ IF RuleIndex(id) = {}
       THEN /\ UNCHANGED rvars
            /\ last' = [op |-> "toggleRule", id |-> id, success |-> FALSE]
       ELSE /\ rules' = [n \in 1..Len(rules) |->
                           IF rules[n].id = id THEN [rules[n] EXCEPT !.enabled = ~@]
                           ELSE rules[n]]
            /\ persistedR' = SaveRules(rules')
            /\ last' = [op |-> "toggleRule", id |-> id, success |-> TRUE]
            /\ UNCHANGED nextRuleId

\* ------------------------------------------- the conditions of a rule
\* A personal chat of a second contact, and a message of a group chat with
\* message.key.participant, the id of the member who wrote it.
OtherChat == [user |-> "777", server |-> "s.whatsapp.net"]

GroupMessage(participant, message) ==
    [fromMe |-> FALSE, remoteJid |-> GroupChat, participant |-> participant,
     message |-> message]

\* Rules with a regex trigger that compiles or throws, with a time window,
\* with excluded contacts and with a chat type, and a rule of priority 0
\* that matches everything.
ConditionOptions ==
    {[name |-> TRUE, action |-> "ok", priority |-> 10,
      trigger |-> [type |-> "regex", pattern |-> <<"(">>]],
     [name |-> TRUE, action |-> "ok", priority |-> 10,
      trigger |-> [type |-> "regex", pattern |-> <<"a">>, flags |-> "z"]],
     [name |-> TRUE, action |-> "ok", priority |-> 10,
      trigger |-> [type |-> "regex", pattern |-> <<"a">>]],
     [name |-> TRUE, action |-> "ok", trigger |-> [type |-> "all"]],
     [name |-> TRUE, action |-> "ok", priority |-> 5, trigger |-> [type |-> "all"],
      conditions |-> [timeRange |-> [enabled |-> TRUE, start |-> <<8, 15>>,
                                     end |-> <<17, 45>>]]],
     [name |-> TRUE, action |-> "ok", priority |-> 5, trigger |-> [type |-> "all"],
      conditions |-> [timeRange |-> [enabled |-> TRUE, start |-> <<22, 0>>,
                                     end |-> <<6, 0>>]]],
     [name |-> TRUE, action |-> "ok", priority |-> 5, trigger |-> [type |-> "all"],
      conditions |-> [timeRange |-> [enabled |-> FALSE, start |-> <<8, 15>>,
                                     end |-> <<17, 45>>]]],
     [name |-> TRUE, action |-> "ok", priority |-> 5, trigger |-> [type |-> "all"],
      conditions |-> [excludeContacts |-> <<"628">>]],
     [name |-> TRUE, action |-> "ok", priority |-> 5, trigger |-> [type |-> "all"],
      conditions |-> [chatType |-> "personal"]],
     [name |-> TRUE, action |-> "ok", priority |-> 5, trigger |-> [type |-> "all"],
      conditions |-> [chatType |-> "group"]]}

\* Texts of two contacts in their personal chats and in a group chat.
ConditionMessages ==
    {Message(FALSE, PersonalChat, Body(<<"a">>, <<>>, <<>>)),
     Message(FALSE, PersonalChat, Body(<<"(">>, <<>>, <<>>)),
     Message(FALSE, OtherChat, Body(<<"a">>, <<>>, <<>>)),
     GroupMessage(PersonalChat, Body(<<"a">>, <<>>, <<>>)),
     GroupMessage(OtherChat, Body(<<"b">>, <<>>, <<>>))}

\* The session that receives them; every rule above is a rule of all sessions.
ConditionSession == "s1"

\* Minutes of the day around 06:00, 08:15, 17:45 and 22:00.
ConditionNows == {0, 360, 494, 495, 720, 1065, 1066, 1320, 1439}

\* ============================================================ rateLimiter
\* check(redis, key, limit = 30, windowSeconds = 60): the limit and the window
\* the calls for the key are made with.
limit == 2
windowSeconds == 1

\* The clock when the first call can be made.
StartNow == windowSeconds * 1000

\* Time that passes between two reads of Date.now(): none, a millisecond, a
\* millisecond less than the window, the window.
Elapsed == {0, 1, windowSeconds * 1000 - 1, windowSeconds * 1000}

\* EXPIRE key windowSeconds, set by every transaction: the key is gone
\* windowSeconds after the last of them, whose score is the highest in the set.
Live(z, t) ==
    IF \E e \in z : e.score + windowSeconds * 1000 > t THEN z ELSE {}

\* ZREMRANGEBYSCORE key min max
ZRemRangeByScore(z, min, max) == {e \in z : ~(min <= e.score /\ e.score <= max)}

\* ZCARD key
ZCard(z) == Cardinality(z)

\* ZADD key score member: a sorted set holds a member once; adding a member it
\* holds already only sets the score of that member.
ZAdd(z, score, member) ==
    {e \in z : e.member # member} \cup {[member |-> member, score |-> score]}

\* ZRANGE key 0 0 WITHSCORES: the member of the lowest score and that score, as
\* strings; nothing for an empty set.
ZRangeFirstWithScores(z) ==
    IF z = {} THEN <<>>
    ELSE LET e == CHOOSE x \in z : \A y \in z : x.score <= y.score
         IN  <<e.member, ToString(e.score)>>

\* parseInt of the decimal string of a score of the set.
ParseInt(str, z) == CHOOSE n \in {e.score : e \in z} : ToString(n) = str

\* Math.ceil(a / b)
Ceil(a, b) == 0 - ((0 - a) \div b)

\* The answer of the catch block: the request is allowed when Redis fails.
FailOpen(t) ==
    [t |-> t, pc |-> "done", redis |-> FALSE, allowed |-> TRUE, remaining |-> limit,
     resetIn |-> windowSeconds, counted |-> 0]

\* check(redis, key, limit, windowSeconds), d milliseconds after the previous
\* call, up to its answer or to its await of zrange: Date.now(), then the
\* transaction, which Redis runs as one step (or which fails, reachable being
\* FALSE). counted is history: the entries of the set after the transaction.
check(d, reachable) ==
    /\ Len(answered) < MaxCalls
    /\ dateNow' = dateNow + d
    /\ IF reachable
       THEN LET windowKey == ZRemRangeByScore(Live(ratelimit, dateNow'), 0,
                                              dateNow' - windowSeconds * 1000)
                currentCount == ZCard(windowKey)
            IN  /\ ratelimit' = ZAdd(windowKey, dateNow', ToString(dateNow'))
                /\ answered' = Append(answered,
                      IF currentCount >= limit
                      THEN [t |-> dateNow', pc |-> "zrange", redis |-> TRUE,
                            allowed |-> FALSE, remaining |-> 0, resetIn |-> 0,
                            counted |-> ZCard(ratelimit')]
                      ELSE [t |-> dateNow', pc |-> "done", redis |-> TRUE,
                            allowed |-> TRUE, remaining |-> limit - currentCount - 1,
                            resetIn |-> windowSeconds,
                            counted |-> ZCard(ratelimit')])
       ELSE /\ answered' = Append(answered, FailOpen(dateNow'))
            /\ UNCHANGED ratelimit
    /\ last' = [op |-> "check", id |-> "-", success |-> reachable]
    /\ UNCHANGED <<bvars, svars, rvars, session, storage, io>>

\* The zrange of the refused call i returns (or fails): the call answers with
\* the resetIn computed from the oldest entry.
zrangeReturns(i, reachable) ==
    /\ i \in DOMAIN answered
    /\ answered[i].pc = "zrange"
    /\ IF reachable
       THEN LET oldest == ZRangeFirstWithScores(Live(ratelimit, dateNow))
                resetIn == IF Len(oldest) > 1
                           THEN Ceil(ParseInt(oldest[2], ratelimit)
                                       + windowSeconds * 1000 - answered[i].t, 1000)
                           ELSE windowSeconds
            IN  answered' = [answered EXCEPT ![i].pc = "done", ![i].resetIn = resetIn]
       ELSE answered' = [answered EXCEPT ![i] = FailOpen(answered[i].t)]
    /\ last' = [op |-> "zrange", id |-> "-", success |-> reachable]
    /\ UNCHANGED <<ratelimit, dateNow>>
    /\ UNCHANGED <<bvars, svars, rvars, session, storage, io>>

\* No call was made yet.
LIdle ==
    /\ ratelimit = {}
    /\ dateNow = StartNow
    /\ answered = <<>>

\* ======================================================== specifications
\* The length of the longest recipient list a campaign is created with.
OrderRecipients == MaxRecipients + 1

BIdle ==
    /\ broadcasts = {}
    /\ bcast = [b \in BIds |-> NoBroadcast]
    /\ persistedB = [b \in BIds |-> NoBroadcast]
    /\ activeQueues = {}
    /\ loops = [b \in BIds |-> EmptyBag]
    /\ sendCount = [b \in BIds |-> [i \in 1..OrderRecipients |-> 0]]
    /\ whatsappManagerB = FALSE
    /\ emitted = [b \in BIds |-> NoEvents]
    /\ clock = 0

SIdle ==
    /\ schedules = {}
    /\ sched = [i \in SIds |-> NoSchedule]
    /\ persistedS = [i \in SIds |-> NoSchedule]
    /\ jobs = {}
    /\ executions = [i \in SIds |-> 0]
    /\ sends = [i \in SIds |-> 0]
    /\ whatsappManagerS = FALSE

RIdle ==
    /\ rules = <<>>
    /\ persistedR = <<>>
    /\ nextRuleId = 0

EnvInit ==
    /\ session = "absent"
    /\ storage = "ok"
    /\ io = FALSE
    /\ LIdle
    /\ last = [op |-> "init", id |-> "-", success |-> TRUE]

\* The services as constructed with no data file on disk.
Init == BIdle /\ SIdle /\ RIdle /\ EnvInit

\* BroadcastService and the gateway.
BNext ==
    \/ setWhatsAppManagerB
    \/ \E s \in SessionStates : SessionChange(s)
    \/ \E b \in BIds, f \in BOOLEAN, r \in RecipientInputs : create(b, f, r)
    \/ \E b \in BIds : start(b)
    \/ \E b \in BIds : pause(b)
    \/ \E b \in BIds : cancel(b)
    \/ \E b \in BIds : delete(b)
    \/ \E b \in BIds : \E lp \in BagToSet(loops[b]), o \in SendOutcomes :
          sendReturns(b, lp, o)
    \/ \E b \in BIds : \E lp \in BagToSet(loops[b]) : wake(b, lp)

SpecB == Init /\ [][BNext]_vars

\* The worker loops make progress: a gateway call that was issued returns or
\* throws, and a setTimeout delay elapses.
BFairness ==
    \A b \in BIds :
        /\ WF_vars(\E lp \in BagToSet(loops[b]), o \in SendOutcomes : sendReturns(b, lp, o))
        /\ WF_vars(\E lp \in BagToSet(loops[b]) : wake(b, lp))

\* BroadcastService when no operator pauses, cancels or deletes a campaign.
BRunNext ==
    \/ setWhatsAppManagerB
    \/ \E s \in SessionStates : SessionChange(s)
    \/ \E b \in BIds, f \in BOOLEAN, r \in RecipientInputs : create(b, f, r)
    \/ \E b \in BIds : start(b)
    \/ \E b \in BIds : \E lp \in BagToSet(loops[b]), o \in SendOutcomes :
          sendReturns(b, lp, o)
    \/ \E b \in BIds : \E lp \in BagToSet(loops[b]) : wake(b, lp)

SpecBRun == Init /\ [][BRunNext]_vars /\ BFairness

\* BroadcastService across restarts of the process.
BLoadNext ==
    \/ BRunNext
    \/ restart

SpecBLoad == Init /\ [][BLoadNext]_vars

\* BroadcastService on a campaign of OrderRecipients recipients that is
\* started, paused and resumed.
BOrderNext ==
    \/ setWhatsAppManagerB
    \/ \E s \in SessionStates : SessionChange(s)
    \/ \E b \in BIds : create(b, TRUE, [kind |-> "array", n |-> OrderRecipients])
    \/ \E b \in BIds : start(b)
    \/ \E b \in BIds : pause(b)
    \/ \E b \in BIds : \E lp \in BagToSet(loops[b]), o \in SendOutcomes :
          sendReturns(b, lp, o)
    \/ \E b \in BIds : \E lp \in BagToSet(loops[b]) : wake(b, lp)

SpecBOrder == Init /\ [][BOrderNext]_vars

\* The three services on a disk whose writes fail at times: a campaign, a
\* schedule and the rules are created and changed while the session is
\* connected.
PersistedCampaign == [kind |-> "array", n |-> MaxRecipients]
PersistedSchedule == [kind |-> "date", t |-> 1, iso |-> FALSE]
PersistedRule == [name |-> TRUE, action |-> "ok", trigger |-> [type |-> "all"]]
PersistedMessage == Message(FALSE, PersonalChat, Body(<<"a">>, <<>>, <<>>))

PNext ==
    \/ \E s \in StorageStates : StorageChange(s)
    \/ setWhatsAppManagerB
    \/ SessionChange("connected")
    \/ \E b \in BIds : create(b, TRUE, PersistedCampaign)
    \/ \E b \in BIds : start(b)
    \/ \E b \in BIds : \E lp \in BagToSet(loops[b]) : sendReturns(b, lp, "ok")
    \/ \E b \in BIds : \E lp \in BagToSet(loops[b]) : wake(b, lp)
    \/ \E i \in SIds : createSchedule(i, "none", PersistedSchedule, "daily")
    \/ \E i \in SIds : toggleSchedule(i)
    \/ createRule(PersistedRule)
    \/ \E now \in Nows : processMessage(ConditionSession, PersistedMessage, now)

SpecP == Init /\ [][PNext]_vars

\* BroadcastService with the WebSocket server that receives its events; the
\* campaigns are started, paused and resumed.
BEventsNext ==
    \/ initialize
    \/ setWhatsAppManagerB
    \/ SessionChange("connected")
    \/ \E b \in BIds, n \in 1..MaxRecipients : create(b, TRUE, [kind |-> "array", n |-> n])
    \/ \E b \in BIds : start(b)
    \/ \E b \in BIds : pause(b)
    \/ \E b \in BIds : \E lp \in BagToSet(loops[b]), o \in SendOutcomes :
          sendReturns(b, lp, o)
    \/ \E b \in BIds : \E lp \in BagToSet(loops[b]) : wake(b, lp)

SpecBEvents == Init /\ [][BEventsNext]_vars

\* SchedulerService and the gateway.
SNext ==
    \/ setWhatsAppManagerS
    \/ \E s \in SessionStates : SessionChange(s)
    \/ \E i \in SIds, m \in MissingFields, at \in ScheduledAtInputs, r \in Repeats :
          createSchedule(i, m, at, r)
    \/ \E i \in SIds, u \in UpdateInputs : updateSchedule(i, u)
    \/ \E i \in SIds : deleteSchedule(i)
    \/ \E i \in SIds : toggleSchedule(i)
    \/ \E i \in SIds : fire(i)
    \/ \E i \in SIds, o \in SendOutcomes : sendResolves(i, o)

SpecS == Init /\ [][SNext]_vars

\* _matchesTrigger on every keyword trigger and text within the bounds.
KInit ==
    /\ BIdle /\ SIdle /\ RIdle
    /\ session = "absent"
    /\ storage = "ok"
    /\ io = FALSE
    /\ LIdle
    /\ last \in {[op |-> "call", id |-> "-", success |-> FALSE, trigger |-> tr, text |-> t] :
                     tr \in KeywordTriggers, t \in StringsUpTo(MaxTextLen)}

KNext == matchesTrigger

SpecK == KInit /\ [][KNext]_vars

\* _startSchedule on every scheduledAt, schedule timezone and server zone.
CInit ==
    /\ BIdle /\ SIdle /\ RIdle
    /\ session = "absent"
    /\ storage = "ok"
    /\ io = FALSE
    /\ LIdle
    /\ last \in {[op |-> "call", id |-> "-", success |-> FALSE, scheduledAt |-> t,
                  timezone |-> tz, serverZone |-> sz, firstFire |-> 0] :
                     t \in ScheduledInstants, tz \in Zones \cup {""}, sz \in Zones}

CNext == startScheduleOnce

SpecC == CInit /\ [][CNext]_vars

\* rateLimiter.check for one key.
LNext ==
    \/ \E d \in Elapsed, reachable \in BOOLEAN : check(d, reachable)
    \/ \E i \in 1..MaxCalls, reachable \in BOOLEAN : zrangeReturns(i, reachable)

SpecL == Init /\ [][LNext]_vars

\* AutoReplyService.
RNext ==
    \/ \E o \in RuleOptions : createRule(o)
    \/ \E id \in RIds, u \in RuleUpdates : updateRule(id, u)
    \/ \E id \in RIds : deleteRule(id)
    \/ \E id \in RIds : toggleRule(id)
    \/ \E sid \in Sessions, m \in Messages, now \in Nows : processMessage(sid, m, now)

SpecR == Init /\ [][RNext]_vars

\* AutoReplyService.processMessage on rules with conditions.
MNext ==
    \/ \E o \in ConditionOptions : createRule(o)
    \/ \E m \in ConditionMessages, now \in ConditionNows :
          processMessage(ConditionSession, m, now)

SpecM == Init /\ [][MNext]_vars

\* ================================================================ claims
Existing == {b \in BIds : bcast[b].status # "none"}

\* C1: in every reachable state of every broadcast, stats.sent + stats.failed +
\* stats.pending equals stats.total, and stats.total is the number of
\* recipients; the same holds of every record in the persisted file.
C1_StatsSum ==
    \A b \in Existing : \A o \in {bcast[b], persistedB[b]} :
        /\ o.stats.sent + o.stats.failed + o.stats.pending = o.stats.total
        /\ o.stats.total = Len(o.recipients)

\* C1's case: a campaign in which a send has succeeded and a send has failed.
C1_Witness ==
    \E b \in Existing : bcast[b].stats.sent >= 1 /\ bcast[b].stats.failed >= 1

\* C2 (as claimed): no recipient is sent to twice, and in a completed campaign
\* every recipient was sent to exactly once.
C2_AtMostOneSend ==
    \A b \in Existing : \A i \in 1..Len(bcast[b].recipients) :
        /\ sendCount[b][i] <= 1
        /\ bcast[b].status = "completed" => sendCount[b][i] = 1

\* C3 (as claimed): a cancelled or completed campaign keeps its status in
\* every later step.
C3_TerminalStatus ==
    [][\A b \in BIds :
          bcast[b].status \in {"cancelled", "completed"}
              => bcast'[b].status = bcast[b].status]_vars

\* C4 (as claimed): a running campaign has exactly one live _processQueue
\* activation, and no campaign ever has two.
C4_OneWorkerLoop ==
    \A b \in BIds :
        /\ ActiveLoops(b) <= 1
        /\ (b \in broadcasts /\ bcast[b].status = "running") => ActiveLoops(b) = 1

\* C5: the step that records a resolved send of a once schedule (the
\* executionCount increment) sets status completed and enabled false and
\* removes the live trigger in that same step, so no later fire can issue a send.
C5_OnceCompletes ==
    [][\A i \in SIds :
          (/\ i \in schedules
           /\ sched[i].repeat = "once"
           /\ sched'[i].executionCount = sched[i].executionCount + 1)
              => /\ sched'[i].status = "completed"
                 /\ ~sched'[i].enabled
                 /\ sched'[i].lastExecuted
                 /\ i \notin jobs'
                 /\ persistedS'[i] = sched'[i]]_vars

\* C5's case: a once schedule whose only send has resolved.
C5_Witness ==
    \E i \in schedules :
        /\ last.op = "sendResolves" /\ last.id = i /\ last.success
        /\ sched[i].repeat = "once"
        /\ sched[i].status = "completed"
        /\ sched[i].executionCount = 1
        /\ sends[i] = 1
        /\ i \notin jobs

\* C6 (as claimed): once a schedule is completed, every later step leaves it
\* completed and disabled, with no live trigger, and issues no send for it.
C6_CompletedTerminal ==
    [][\A i \in SIds :
          (i \in schedules /\ sched[i].status = "completed")
              => /\ sends'[i] = sends[i]
                 /\ i \in schedules'
                        => /\ sched'[i].status = "completed"
                           /\ ~sched'[i].enabled
                           /\ i \notin jobs']_vars

\* A rule that is enabled, applicable to the session, and whose conditions and
\* trigger pass on the message.
C7_Passes(rule, sessionId, message, now) ==
    /\ rule.enabled
    /\ Applicable(rule, sessionId)
    /\ MatchesRule(rule, ExtractMessageText(message), message.remoteJid,
                   IsGroup(message.remoteJid), now)

\* C7: for a message that reaches the rule selection of processMessage (lines
\* 209-237: not self-originated, not a status broadcast, with text), the rule
\* of the action returned is enabled, applicable to the session and passes its
\* conditions and trigger, and no rule that does so too has a strictly higher
\* priority; null is returned only when no rule does so.
C7_FirstMatchByPriority ==
    [][\A sid \in Sessions, m \in Messages, now \in Nows :
          (/\ last'.op = "processMessage"
           /\ ~Skipped(m)
           /\ processMessage(sid, m, now)) =>
              LET passing == {n \in 1..Len(rules) : C7_Passes(rules[n], sid, m, now)}
              IN  IF last'.id = "null" THEN passing = {}
                  ELSE \E n \in passing :
                          /\ rules[n].id = last'.id
                          /\ \A j \in passing : rules[j].priority <= rules[n].priority]_vars

\* C7's case: two enabled rules of every session whose trigger is all, the
\* one of priority 5 created before the one of priority 10; a message has just
\* been answered by the priority-10 rule, and the other rule has matched nothing.
C7_Witness ==
    /\ last.op = "processMessage"
    /\ Len(rules) = 2
    /\ last.id = rules[2].id
    /\ \A n \in 1..2 :
          /\ rules[n].enabled
          /\ rules[n].sessionId = "*"
          /\ rules[n].trigger.type = "all"
          /\ rules[n].conditions.chatType = "all"
    /\ rules[1].priority = 5 /\ rules[1].matchCount = 0
    /\ rules[2].priority = 10 /\ rules[2].matchCount = 1

\* C8: while a broadcast is running, stats.pending equals recipients.length
\* minus currentIndex.
C8_PendingIsRest ==
    \A b \in Existing :
        bcast[b].status = "running"
            => bcast[b].stats.pending
                   = Len(bcast[b].recipients) - bcast[b].currentIndex

\* C8's case: a running campaign with processed recipients behind the cursor
\* and pending ones ahead of it.
C8_Witness ==
    \E b \in Existing :
        /\ bcast[b].status = "running"
        /\ bcast[b].currentIndex >= 1
        /\ bcast[b].stats.pending >= 1

\* C11: update on a completed schedule is rejected whatever the fields, and
\* leaves the schedule records, the file and the live triggers as they were.
C11_CompletedNotUpdated ==
    [][\A i \in SIds, u \in UpdateInputs :
          (/\ i \in schedules
           /\ sched[i].status = "completed"
           /\ updateSchedule(i, u))
              => /\ ~last'.success
                 /\ UNCHANGED <<schedules, sched, persistedS, jobs>>]_vars

\* C11's case: an update of a completed schedule has just been refused.
C11_Witness ==
    \E i \in schedules :
        /\ last.op = "updateSchedule" /\ last.id = i /\ ~last.success
        /\ sched[i].status = "completed"
        /\ sched[i].executionCount >= 1

\* C12 (as claimed): an update that fails on an unparseable scheduledAt leaves
\* every field of the schedule record, the file and the live triggers as they
\* were before the call.
C12_RejectedBeforeMutation ==
    [][\A i \in SIds, u \in UpdateInputs :
          (/\ ~UpdateRejected(i)
           /\ u.scheduledAt.kind = "invalid"
           /\ updateSchedule(i, u))
              => /\ ~last'.success
                 /\ UNCHANGED <<schedules, sched, persistedS, jobs>>]_vars

\* C13: a fire without a connected session issues no send, records lastError
\* (in the record and in the file), leaves status, enabled, executionCount and
\* lastExecuted as they were, and keeps the trigger live.
C13_FireWithoutSession ==
    [][\A i \in SIds :
          (fire(i) /\ session # "connected")
              => /\ sends' = sends
                 /\ executions' = executions
                 /\ sched'[i] = [sched[i] EXCEPT !.lastError = TRUE]
                 /\ persistedS'[i] = sched'[i]
                 /\ i \in jobs'
                 /\ (ENABLED fire(i))']_vars

\* C13's case: a once schedule whose fire failed for want of a session: still
\* pending and enabled, never executed, its trigger live.
C13_Witness ==
    \E i \in schedules :
        /\ last.op = "fire" /\ last.id = i /\ ~last.success
        /\ sched[i].repeat = "once"
        /\ sched[i].lastError
        /\ sched[i].status = "pending"
        /\ sched[i].enabled
        /\ sched[i].executionCount = 0
        /\ i \in jobs

\* C14 (as claimed): a send that throws or resolves with an unsuccessful
\* result records lastError and leaves executionCount, lastExecuted and the
\* status as they were.
C14_CountsOnlySuccess ==
    [][\A i \in SIds, o \in SendOutcomes \ {"ok"} :
          (sendResolves(i, o) /\ i \in schedules)
              => /\ sched'[i].lastError
                 /\ sched'[i].executionCount = sched[i].executionCount
                 /\ sched'[i].lastExecuted = sched[i].lastExecuted
                 /\ sched'[i].status = sched[i].status]_vars

\* C15: the return of a send changes the recipient it was sent to and no
\* other: on a successful result that recipient is sent, with sentAt, sent + 1
\* and pending - 1; on a throw or an unsuccessful result it is failed, with its
\* error, failed + 1 and pending - 1. The status of the campaign stays, the
\* cursor moves on by one and the worker loop stays alive.
C15_OneRecipientPerSend ==
    [][\A b \in BIds : \A lp \in BagToSet(loops[b]), o \in SendOutcomes :
          sendReturns(b, lp, o) =>
              LET old == bcast[b]
                  new == bcast'[b]
                  k == lp.k + 1
              IN  /\ \A j \in 1..Len(old.recipients) :
                        j # k => new.recipients[j] = old.recipients[j]
                  /\ IF o = "ok"
                     THEN /\ new.recipients[k].status = "sent"
                          /\ new.recipients[k].sentAt
                          /\ new.stats.sent = old.stats.sent + 1
                          /\ new.stats.failed = old.stats.failed
                     ELSE /\ new.recipients[k].status = "failed"
                          /\ new.recipients[k].error
                          /\ new.stats.failed = old.stats.failed + 1
                          /\ new.stats.sent = old.stats.sent
                  /\ new.stats.pending = old.stats.pending - 1
                  /\ new.stats.total = old.stats.total
                  /\ new.status = old.status
                  /\ new.currentIndex = old.currentIndex + 1
                  /\ ActiveLoops(b)' = ActiveLoops(b)
                  /\ persistedB'[b] = new]_vars

\* C15's case: a send has just failed in a campaign that is still running,
\* with a recipient left for its loop to go on to.
C15_Witness ==
    \E b \in Existing :
        /\ last.op = "sendReturns" /\ last.id = b /\ ~last.success
        /\ bcast[b].status = "running"
        /\ bcast[b].stats.failed >= 1
        /\ bcast[b].currentIndex < Len(bcast[b].recipients)
        /\ ActiveLoops(b) = 1

\* The sends of campaign b that are in flight.
InFlight(b) == {lp \in BagToSet(loops[b]) : lp.pc = "send"}

C16_Done(b) ==
    /\ bcast[b].status = "completed"
    /\ bcast[b].completedAt # 0
    /\ bcast[b].currentIndex = Len(bcast[b].recipients)
    /\ bcast[b].stats.pending = 0
    /\ \A j \in 1..Len(bcast[b].recipients) :
          bcast[b].recipients[j].status \in {"sent", "failed"}

\* C16: with no pause, cancel or delete, and under weak fairness of the worker
\* loop (every send returns or throws, every delay elapses), a running campaign
\* reaches status completed with completedAt set, the cursor at the end of the
\* list, stats.pending = 0 and every recipient sent or failed, whatever the
\* results of the sends.
C16_EventuallyCompleted ==
    \A b \in BIds :
        (b \in broadcasts /\ bcast[b].status = "running") ~> C16_Done(b)

\* C16's case: a campaign that ran to its end with a send that succeeded and a
\* send that failed.
C16_Witness ==
    \E b \in Existing :
        /\ C16_Done(b)
        /\ bcast[b].stats.sent >= 1
        /\ bcast[b].stats.failed >= 1
        /\ last.op = "wake"

\* C17 (as claimed): while a campaign is paused or cancelled no send is
\* started for it, at most one send is in flight, and only a call of the
\* operator (start, cancel, delete) changes its status.
C17_PauseCancelEffective ==
    [][\A b \in BIds :
          (b \in broadcasts /\ bcast[b].status \in {"paused", "cancelled"})
              => /\ Cardinality(InFlight(b)) <= 1
                 /\ last'.op \notin {"start", "cancel", "delete"}
                        => /\ sendCount'[b] = sendCount[b]
                           /\ bcast'[b].status = bcast[b].status]_vars

C18_Rejected ==
    /\ ~last'.success
    /\ UNCHANGED <<broadcasts, bcast, persistedB>>

\* C18: pause of a campaign that is not running, cancel of a completed one,
\* delete of a running one, and each of them for an unknown id, fail and
\* leave the broadcast records and the file as they were.
C18_RejectedCalls ==
    [][\A b \in BIds :
          /\ (pause(b) /\ ~(b \in broadcasts /\ bcast[b].status = "running"))
                => C18_Rejected
          /\ (cancel(b) /\ (b \notin broadcasts \/ bcast[b].status = "completed"))
                => C18_Rejected
          /\ (delete(b) /\ (b \notin broadcasts \/ bcast[b].status = "running"))
                => C18_Rejected]_vars

\* C18's case: a cancel of a completed campaign has just been refused.
C18_Witness ==
    \E b \in broadcasts :
        /\ last.op = "cancel" /\ last.id = b /\ ~last.success
        /\ bcast[b].status = "completed"

\* The rule of the action processMessage has just returned, as it was before
\* the call.
C19_Returned == {n \in 1..Len(rules) : rules[n].id = last'.id}

\* C19 (as claimed): the rule of a returned action is enabled at the time of
\* the call and its sessionId is '*' or the inbound session.
C19_EnabledAndOfSessionAsClaimed ==
    [][\A sid \in Sessions, m \in Messages, now \in Nows :
          (/\ last'.op = "processMessage"
           /\ last'.id # "null"
           /\ processMessage(sid, m, now))
              => \E n \in C19_Returned :
                    /\ rules[n].enabled
                    /\ rules[n].sessionId \in {"*", sid}]_vars

\* C19 (amended): the rule of a returned action is enabled at the time of the
\* call and its sessionId is '*', the inbound session, or empty: a rule whose
\* sessionId update has emptied applies to every session.
C19_EnabledAndOfSession ==
    [][\A sid \in Sessions, m \in Messages, now \in Nows :
          (/\ last'.op = "processMessage"
           /\ last'.id # "null"
           /\ processMessage(sid, m, now))
              => \E n \in C19_Returned :
                    /\ rules[n].enabled
                    /\ rules[n].sessionId \in {"*", sid, ""}]_vars

\* C19's case: a message has been answered by the rule of priority 5 while the
\* rule of priority 10, whose trigger is all, was disabled.
C19_Witness ==
    /\ last.op = "processMessage"
    /\ Len(rules) = 2
    /\ \E n, q \in 1..2 :
          /\ last.id = rules[n].id
          /\ rules[n].priority = 5
          /\ rules[n].matchCount = 1
          /\ rules[q].priority = 10
          /\ ~rules[q].enabled
          /\ rules[q].sessionId = "*"
          /\ rules[q].trigger.type = "all"
          /\ rules[q].conditions.chatType = "all"
          /\ rules[q].matchCount = 0

\* The messages the claim lists: self-originated, of the chat status@broadcast,
\* or with no body text, no extended text and no media caption.
C20_Ignored(m) ==
    \/ m.fromMe
    \/ m.remoteJid.user = "status" /\ m.remoteJid.server = "broadcast"
    \/ /\ m.message.conversation = <<>>
       /\ m.message.extendedText = <<>>
       /\ m.message.imageCaption = <<>>
       /\ m.message.videoCaption = <<>>
       /\ m.message.documentCaption = <<>>

\* C20: for such a message processMessage returns null and leaves the rules
\* (matchCount, lastMatchedAt) and the file as they were.
C20_IgnoredMessages ==
    [][\A sid \in Sessions, m \in Messages, now \in Nows :
          (/\ last'.op = "processMessage"
           /\ C20_Ignored(m)
           /\ processMessage(sid, m, now))
              => /\ last'.id = "null"
                 /\ UNCHANGED <<rules, persistedR, nextRuleId>>]_vars

\* C20's case: null has just been returned although an enabled rule of every
\* session, with trigger all and no condition, would answer any message that
\* reaches the rules.
C20_Witness ==
    /\ last.op = "processMessage"
    /\ last.id = "null"
    /\ \E n \in 1..Len(rules) :
          /\ rules[n].enabled
          /\ rules[n].sessionId = "*"
          /\ rules[n].trigger.type = "all"
          /\ rules[n].conditions.chatType = "all"
          /\ rules[n].matchCount = 0

\* The rule of id r in the sequence rs, when there is one.
C21_Rule(rs, r) == rs[CHOOSE n \in 1..Len(rs) : rs[n].id = r]

C21_Has(rs, r) == \E n \in 1..Len(rs) : rs[n].id = r

\* C21: a processMessage call that returns an action adds 1 to the matchCount
\* of the returned rule, sets its lastMatchedAt, leaves every other rule and
\* every other field as they were, and saves; a call that returns null changes
\* nothing; no other operation changes the matchCount or lastMatchedAt of a
\* rule that exists before and after it.
C21_CountedOnlyByMatching ==
    [][/\ (last'.op = "processMessage" /\ last'.id # "null")
             => /\ C21_Has(rules, last'.id)
                /\ rules' = [n \in 1..Len(rules) |->
                               IF rules[n].id = last'.id
                               THEN [rules[n] EXCEPT !.matchCount = @ + 1,
                                                     !.lastMatchedAt = TRUE]
                               ELSE rules[n]]
                /\ persistedR' = rules'
       /\ (last'.op = "processMessage" /\ last'.id = "null")
             => UNCHANGED <<rules, persistedR>>
       /\ last'.op # "processMessage"
             => \A r \in RIds :
                   (C21_Has(rules, r) /\ C21_Has(rules', r))
                       => /\ C21_Rule(rules', r).matchCount = C21_Rule(rules, r).matchCount
                          /\ C21_Rule(rules', r).lastMatchedAt
                                 = C21_Rule(rules, r).lastMatchedAt]_vars

\* C21's case: a rule that has matched once has just been updated, next to a
\* rule that has matched nothing.
C21_Witness ==
    /\ last.op = "updateRule"
    /\ last.success
    /\ Len(rules) = 2
    /\ \E n, q \in 1..2 :
          /\ rules[n].id = last.id
          /\ rules[n].matchCount = 1
          /\ rules[n].lastMatchedAt
          /\ rules[q].matchCount = 0
          /\ ~rules[q].lastMatchedAt

\* Two strings that differ in the case of their letters at most.
C22_SameLetters(u, v) ==
    /\ Len(u) = Len(v)
    /\ \A n \in 1..Len(u) :
          \/ u[n] = v[n]
          \/ {u[n], v[n]} = {"a", "A"}
          \/ {u[n], v[n]} = {"b", "B"}

\* Keyword k satisfies matchType mt against text t: k is, up to the case of
\* the letters, the part of t that begins after its first skip characters,
\* where skip is any number (contains), 0 (startsWith, exact) or what leaves
\* nothing behind the part (endsWith, exact).
C22_Satisfies(k, mt, t) ==
    \E skip \in 0..Len(t) :
        /\ skip + Len(k) <= Len(t)
        /\ C22_SameLetters(k, [n \in 1..Len(k) |-> t[skip + n]])
        /\ mt \in {"exact", "startsWith"} => skip = 0
        /\ mt \in {"exact", "endsWith"} => skip + Len(k) = Len(t)

\* C22: a keyword trigger matches a text exactly when one of its keywords is,
\* up to the case of the letters, a substring of the text (matchType contains,
\* and any matchType that is not one of the other three), equal to it (exact),
\* a prefix of it (startsWith) or a suffix of it (endsWith); an empty keyword
\* list matches nothing.
C22_KeywordMatch ==
    last.op = "_matchesTrigger"
        => (last.success
               <=> \E n \in 1..Len(last.trigger.keywords) :
                      C22_Satisfies(last.trigger.keywords[n], last.trigger.matchType,
                                    last.text))

\* C22's case: the keyword "a" with matchType contains has matched the text
\* "bAb", where it occurs in upper case only.
C22_Witness ==
    /\ last.op = "_matchesTrigger"
    /\ last.success
    /\ last.trigger.keywords = << <<"a">> >>
    /\ last.trigger.matchType = "contains"
    /\ last.text = <<"b", "A", "b">>

\* A step of start(b): the only action that leaves last.op = "start".
IsStartStep(b) ==
    /\ last'.op = "start"
    /\ last'.id = b
    /\ (last' # last \/ bvars' # bvars)

\* The failing cases of start, as the claim lists them (a manager that was
\* never set gives no session either).
C9_FailingCase(b) ==
    \/ b \notin broadcasts
    \/ bcast[b].status \in {"running", "completed"}
    \/ ~whatsappManagerB
    \/ session \in {"absent", "close"}

C9_Unchanged ==
    /\ ~last'.success
    /\ UNCHANGED <<broadcasts, bcast, persistedB, activeQueues, loops, sendCount>>

C9_StartsAtCursor(b) ==
    /\ last'.success
    /\ bcast'[b].status = "running"
    /\ bcast'[b].startedAt = IF bcast[b].startedAt # 0 THEN bcast[b].startedAt
                             ELSE clock'
    /\ bcast'[b].startedAt # 0
    /\ bcast'[b].currentIndex = bcast[b].currentIndex
    /\ loops'[b] = AddLoop(loops[b], [pc |-> "send", k |-> bcast[b].currentIndex,
                                      messagesInBatch |-> 0])
    /\ sendCount' = [sendCount EXCEPT ![b][bcast[b].currentIndex + 1] = @ + 1]

C10_FailingCase(missing, at, repeat) ==
    \/ missing \in {"sessionId", "chatId", "message"}
    \/ at.kind = "missing"
    \/ at.kind = "invalid"
    \/ (repeat = "once" /\ ~(at.t > 0))

\* C10: a create with a required field missing, an unparseable scheduledAt, or
\* repeat = once and a scheduledAt not strictly after the current time fails
\* and stores, persists and installs nothing; every other create (a recurring
\* schedule with a past scheduledAt included) is accepted and its schedule
\* starts pending, enabled, with executionCount 0.
C10_CreateValidation ==
    [][\A i \in SIds, m \in MissingFields, at \in ScheduledAtInputs, r \in Repeats :
          createSchedule(i, m, at, r) =>
              IF C10_FailingCase(m, at, r)
              THEN /\ ~last'.success
                   /\ UNCHANGED <<schedules, sched, persistedS, jobs>>
              ELSE /\ last'.success
                   /\ schedules' = schedules \cup {i}
                   /\ sched'[i].status = "pending"
                   /\ sched'[i].enabled
                   /\ sched'[i].executionCount = 0
                   /\ sched'[i].repeat = r
                   /\ persistedS'[i] = sched'[i]]_vars

\* C10's case: a once schedule at a time that is not in the future has just
\* been refused, next to a stored recurring schedule whose scheduledAt is past.
C10_Witness ==
    /\ last.op = "createSchedule"
    /\ ~last.success
    /\ last.message = "Scheduled time must be in the future"
    /\ \E i \in schedules :
          /\ sched[i].repeat = "daily"
          /\ sched[i].scheduledAt.t < 0
          /\ sched[i].status = "pending"
          /\ sched[i].executionCount = 0

\* C23: a regex rule whose pattern or flags do not compile never matches and
\* never raises: processMessage returns for every message, never returns that
\* rule, leaves the rule as it was, and returns an action whenever an enabled
\* rule of the session that does compile matches the message.
C23_DoesNotCompile(rule) ==
    /\ rule.trigger.type = "regex"
    /\ \/ \E n \in 1..Len(rule.trigger.pattern) : rule.trigger.pattern[n] = "("
       \/ rule.trigger.flags = "z"

C23_InvalidRegexNeverMatches ==
    [][\A m \in ConditionMessages, now \in ConditionNows :
          last'.op = "processMessage" /\ processMessage(ConditionSession, m, now)
              => /\ \A n \in 1..Len(rules) :
                      C23_DoesNotCompile(rules[n])
                          => rules'[n] = rules[n] /\ last'.id # rules[n].id
                 /\ (\E n \in 1..Len(rules) :
                        /\ ~C23_DoesNotCompile(rules[n])
                        /\ rules[n].enabled
                        /\ rules[n].sessionId \in {"*", ConditionSession}
                        /\ MatchesRule(rules[n], ExtractMessageText(m), m.remoteJid,
                                       IsGroup(m.remoteJid), now))
                        => last'.id # "null"]_vars

C23_Witness ==
    /\ last.op = "processMessage" /\ last.id = "r2"
    /\ Len(rules) = 2
    /\ C23_DoesNotCompile(rules[1]) /\ rules[1].priority > rules[2].priority
    /\ rules[1].matchCount = 0 /\ rules[2].matchCount = 1

\* C24: a rule with timeRange.enabled is returned only at a minute t of the
\* day with start <= t <= end, both bounds included, so a window whose start
\* is later than its end is never returned; a rule that is alone, matches
\* every text of every chat and has its window disabled, or t inside its
\* enabled window, is returned.
C24_Minutes(hhmm) == 60 * hhmm[1] + hhmm[2]

C24_Inside(timeRange, t) ==
    C24_Minutes(timeRange.start) <= t /\ t <= C24_Minutes(timeRange.end)

C24_Unconditional(rule) ==
    /\ rule.enabled
    /\ rule.trigger.type = "all"
    /\ rule.conditions.chatType = "all"
    /\ rule.conditions.excludeContacts = <<>>

C24_TimeWindow ==
    [][\A m \in ConditionMessages, now \in ConditionNows :
          last'.op = "processMessage" /\ processMessage(ConditionSession, m, now)
              => /\ \A n \in 1..Len(rules) :
                      rules[n].id = last'.id /\ rules[n].conditions.timeRange.enabled
                          => /\ C24_Inside(rules[n].conditions.timeRange, now)
                             /\ C24_Minutes(rules[n].conditions.timeRange.start)
                                    <= C24_Minutes(rules[n].conditions.timeRange.end)
                 /\ Len(rules) = 1 /\ C24_Unconditional(rules[1])
                        => (last'.id = rules[1].id
                               <=> \/ ~rules[1].conditions.timeRange.enabled
                                   \/ C24_Inside(rules[1].conditions.timeRange, now))]_vars

C24_Witness ==
    /\ last.op = "processMessage" /\ last.id = "r2"
    /\ Len(rules) = 2
    /\ rules[1].conditions.timeRange.enabled
    /\ rules[1].conditions.timeRange.start = <<22, 0>>
    /\ rules[1].priority = rules[2].priority
    /\ rules[1].matchCount = 0
    /\ rules[2].conditions.timeRange.enabled
    /\ rules[2].conditions.timeRange.start = <<8, 15>>
    /\ rules[2].matchCount = 1

\* C25: a rule whose excludeContacts holds the bare number of the sender of a
\* message is never returned for it, in a personal chat and when the sender
\* writes in a group chat; a rule of chat type personal (group) is never
\* returned for a message of a group (personal) chat.
C25_Sender(m) ==
    IF IsGroup(m.remoteJid) THEN m.participant.user ELSE m.remoteJid.user

C25_Excludes(rule, m) ==
    \E n \in 1..Len(rule.conditions.excludeContacts) :
        rule.conditions.excludeContacts[n] = C25_Sender(m)

C25_ExcludedSenderNeverMatches ==
    [][\A m \in ConditionMessages, now \in ConditionNows :
          last'.op = "processMessage" /\ processMessage(ConditionSession, m, now)
              => \A n \in 1..Len(rules) :
                    rules[n].id = last'.id
                        => /\ ~C25_Excludes(rules[n], m)
                           /\ rules[n].conditions.chatType = "personal"
                                  => ~IsGroup(m.remoteJid)
                           /\ rules[n].conditions.chatType = "group"
                                  => IsGroup(m.remoteJid)]_vars

\* What the code guarantees: the rule returned does not exclude the chat the
\* message arrived in, and its chat type is the one of that chat.
C25_ExcludedChatNeverMatches ==
    [][\A m \in ConditionMessages, now \in ConditionNows :
          last'.op = "processMessage" /\ processMessage(ConditionSession, m, now)
              => \A n \in 1..Len(rules) :
                    rules[n].id = last'.id
                        => /\ \A k \in 1..Len(rules[n].conditions.excludeContacts) :
                                 rules[n].conditions.excludeContacts[k] # m.remoteJid.user
                           /\ rules[n].conditions.chatType = "personal"
                                  => ~IsGroup(m.remoteJid)
                           /\ rules[n].conditions.chatType = "group"
                                  => IsGroup(m.remoteJid)]_vars

\* C26: whenever the session manager is set and no execution of a schedule is
\* awaiting its send, a live trigger exists for a schedule id exactly when the
\* schedule exists and is enabled, after every return of create, update,
\* toggle and delete, the returns that report a failure included.
C26_TriggerIffEnabled ==
    whatsappManagerS /\ (\A j \in SIds : executions[j] = 0)
        => \A i \in SIds : i \in jobs <=> (i \in schedules /\ sched[i].enabled)

\* C27: after a successful delete(id) of the Scheduler the schedule is in
\* neither the Map nor the persisted collection and has no live trigger, and
\* it stays so in every later state, also when an execution that was awaiting
\* its send completes after the delete; delete of an unknown id fails and
\* changes nothing.
C27_Deleted(i) == i \notin schedules /\ sched[i].status # "none"

C27_DeletedForGood ==
    [][\A i \in SIds :
          /\ C27_Deleted(i)' => i \notin jobs' /\ persistedS'[i] = NoSchedule
          /\ C27_Deleted(i) => C27_Deleted(i)'
          /\ last'.op = "deleteSchedule" /\ deleteSchedule(i)
                => IF i \in schedules
                   THEN last'.success /\ C27_Deleted(i)'
                   ELSE ~last'.success /\ UNCHANGED svars]_vars

C27_Witness ==
    /\ C27_Deleted("s1")
    /\ last.op = "sendResolves" /\ last.id = "s1" /\ last.success
    /\ executions["s1"] = 0
    /\ sched["s1"].executionCount = 0

\* C28: a campaign survives a restart of the process: start(id) of a campaign
\* that was loaded with the status running, with the manager set and the
\* session connected, succeeds and resumes the loop at the persisted
\* currentIndex.
C28_LoadedRunning(b) ==
    b \in broadcasts /\ bcast[b].status = "running" /\ ActiveLoops(b) = 0

C28_ResumableAfterRestart ==
    [][\A b \in BIds :
          /\ last'.op = "start"
          /\ C28_LoadedRunning(b) /\ whatsappManagerB /\ session = "connected"
          /\ bcast[b] = persistedB[b]
          /\ start(b)
          => /\ last'.success
             /\ ActiveLoops(b)' = 1
             /\ bcast'[b].currentIndex >= bcast[b].currentIndex]_vars

\* C30: within one campaign sends are issued in list order: a send to the
\* recipient at index j is started only when every recipient at an index
\* below j has been marked sent or failed, also across pause and resume.
C30_InListOrder ==
    [][\A b \in BIds : \A j \in 1..OrderRecipients :
          sendCount'[b][j] > sendCount[b][j]
              => \A i \in 1..(j - 1) : bcast'[b].recipients[i].status # "pending"]_vars

\* C29: a write error of a save never fails or rolls back an operation: while
\* the write fails, the mutating operations of the three services return
\* their normal result and keep the mutation in memory, and the worker loop
\* of a campaign keeps running; a save whose write succeeds writes the
\* complete collection as it is in memory.
C29_FileB(keys, objs) == [b \in BIds |-> IF b \in keys THEN objs[b] ELSE NoBroadcast]

C29_FileS(keys, objs) == [i \in SIds |-> IF i \in keys THEN objs[i] ELSE NoSchedule]

C29_Scheduler ==
    \A i \in SIds :
        /\ last'.op = "toggleSchedule" /\ toggleSchedule(i) /\ i \in schedules
              => /\ last'.success
                 /\ sched'[i].enabled = ~sched[i].enabled
                 /\ storage = "ok" => persistedS' = C29_FileS(schedules', sched')
        /\ (last'.op = "createSchedule"
               /\ createSchedule(i, "none", PersistedSchedule, "daily"))
              => /\ last'.success
                 /\ i \in schedules' /\ sched'[i].status = "pending"
                 /\ storage = "ok" => persistedS' = C29_FileS(schedules', sched')

C29_RuleMatcher ==
    /\ last'.op = "createRule" /\ createRule(PersistedRule)
          => /\ last'.success
             /\ Len(rules') = Len(rules) + 1
             /\ storage = "ok" => persistedR' = rules'
    /\ \A now \in Nows :
          (/\ last'.op = "processMessage"
           /\ processMessage(ConditionSession, PersistedMessage, now)
           /\ rules # <<>>)
          => /\ last'.id = rules[1].id
             /\ rules'[1].matchCount = rules[1].matchCount + 1
             /\ storage = "ok" => persistedR' = rules'

C29_BroadcastProcessor ==
    \A b \in BIds :
        /\ last'.op = "create" /\ create(b, TRUE, PersistedCampaign)
              => /\ last'.success
                 /\ b \in broadcasts' /\ bcast'[b].status = "created"
                 /\ storage = "ok" => persistedB' = C29_FileB(broadcasts', bcast')
        /\ (last'.op = "start" /\ start(b) /\ StartResult(b) = "Broadcast started")
              => /\ last'.success
                 /\ ActiveLoops(b)' = ActiveLoops(b) + 1
                 /\ bcast'[b].status = "running"
        /\ \A lp \in BagToSet(loops[b]) :
              /\ last'.op = "sendReturns" /\ sendReturns(b, lp, "ok")
                    => /\ bcast'[b].recipients[lp.k + 1].status = "sent"
                       /\ ActiveLoops(b)' = ActiveLoops(b)
                       /\ storage = "ok"
                             => persistedB' = C29_FileB(broadcasts', bcast')
              /\ (/\ last'.op = "wake" /\ wake(b, lp)
                  /\ bcast[b].status = "running"
                  /\ \E k \in (bcast[b].currentIndex + 1)..Len(bcast[b].recipients) :
                        bcast[b].recipients[k].status = "pending")
                    => /\ ActiveLoops(b)' = ActiveLoops(b)
                       /\ \E l \in BagToSet(loops'[b]) : l.pc = "send"

C29_WriteFailureKeepsOperation ==
    [][C29_Scheduler /\ C29_RuleMatcher /\ C29_BroadcastProcessor]_vars

C29_Witness ==
    /\ storage = "failing"
    /\ last.op = "wake"
    /\ persistedB["b1"].status = "created"
    /\ bcast["b1"].status = "running"
    /\ bcast["b1"].recipients[1].status = "sent"
    /\ \E l \in BagToSet(loops["b1"]) : l.pc = "send" /\ l.k = 1
    /\ "s1" \in schedules /\ persistedS["s1"].status = "none"
    /\ Len(rules) = 1 /\ rules[1].matchCount = 1 /\ persistedR = <<>>

\* C31: the currentIndex of a broadcast never decreases and always satisfies
\* 0 <= currentIndex <= recipients.length, under any interleaving of start,
\* pause, cancel and the steps of the worker loops.
C31_CursorInRange ==
    [][\A b \in BIds :
          /\ bcast'[b].currentIndex >= bcast[b].currentIndex
          /\ 0 <= bcast'[b].currentIndex
          /\ bcast'[b].currentIndex <= Len(bcast'[b].recipients)]_vars

\* C32: every processed recipient is followed by one wait, which is the
\* batch pause exactly when the recipients of the campaign processed since
\* the last batch pause have reached batchSize, also when the campaign was
\* paused and resumed in between; the campaign is run by one loop at a time.
C32_Processed(o) == o.stats.sent + o.stats.failed

C32_BatchPauseEveryBatchSize ==
    [][\A b \in BIds : \A lp \in BagToSet(loops[b]), o \in SendOutcomes :
          (/\ last'.op = "sendReturns"
           /\ ActiveLoops(b) = 1
           /\ sendReturns(b, lp, o))
          => \E w \in BagToSet(loops'[b]) :
                /\ loops'[b] = SetToBag({w})
                /\ w.pc \in {"delay", "batchDelay"}
                /\ w.pc = "batchDelay" <=> C32_Processed(bcast'[b]) % batchSize = 0]_vars

\* C33: with the WebSocket server running, every processed recipient produces exactly one broadcast.update
\* event, emitted after the campaign was persisted and before the wait, with
\* the status, stats and currentIndex of that moment; the transition to
\* completed produces one further event with status completed and
\* completedAt; no event reports a currentIndex or stats older than the event
\* emitted before it for the same campaign.
C33_NotOlder(e1, e2) ==
    /\ e2.currentIndex >= e1.currentIndex
    /\ e2.stats.sent >= e1.stats.sent
    /\ e2.stats.failed >= e1.stats.failed
    /\ e2.stats.pending <= e1.stats.pending

C33_Carries(e, o) ==
    e.status = o.status /\ e.stats = o.stats /\ e.currentIndex = o.currentIndex

C34_PersistedIsMemory ==
    \A i \in SIds : persistedS[i] = IF i \in schedules THEN sched[i] ELSE NoSchedule

\* The same for the Rule Matcher and for the Broadcast Processor.
C34_PersistedRules == persistedR = rules

C34_PersistedBroadcasts ==
    \A b \in BIds : persistedB[b] = IF b \in broadcasts THEN bcast[b] ELSE NoBroadcast

\* C35: among the enabled rules of the session that match a message and
\* have the same priority as the rule processMessage returns, the returned
\* rule is the one created first, whatever updates the rules received since.
C35_Created(id) == CHOOSE n \in DOMAIN RuleIds : RuleIds[n] = id

C36_FiresAtScheduledAt ==
    last.op = "_startSchedule" => last.firstFire = last.scheduledAt

\* What the code guarantees: the first fire is scheduledAt when the zone of
\* the server is the zone the trigger is evaluated in, and is off by the
\* difference of the two offsets otherwise.
C36_FiresShiftedByZones ==
    last.op = "_startSchedule"
        => LET timezone == IF last.timezone = "" THEN "Asia/Jakarta" ELSE last.timezone IN
           last.firstFire =
               last.scheduledAt + ZoneOffset(last.serverZone) - ZoneOffset(timezone)

\* C37: a deleted broadcast stays deleted: once delete(id) has removed a
\* broadcast, it is absent from the Map and from the file in every later
\* state, also when a worker loop of the campaign finishes afterwards.
C37_Deleted(b) == b \notin broadcasts /\ bcast[b].status # "none"

C37_DeletedStaysDeleted ==
    [][\A b \in BIds :
          C37_Deleted(b) => (b \notin broadcasts' /\ persistedB'[b].status = "none")]_vars

\* What the code guarantees: a deleted broadcast comes back only by the
\* this.broadcasts.set of a worker loop that outlived the delete.
C37_OnlyALoopRestores ==
    [][\A b \in BIds :
          (C37_Deleted(b) /\ b \in broadcasts')
              => (ActiveLoops(b) > 0 /\ last'.op \in {"sendReturns", "wake"})]_vars

\* C38: the stats of a broadcast agree with its recipient list in every
\* reachable state: stats.sent, stats.failed and stats.pending are the numbers
\* of recipients whose status is sent, failed and pending, and each of them
\* lies between 0 and stats.total.
C38_Count(o, status) ==
    Cardinality({i \in 1..Len(o.recipients) : o.recipients[i].status = status})

C38_StatsAreCounts ==
    \A b \in Existing :
        /\ bcast[b].stats.sent = C38_Count(bcast[b], "sent")
        /\ bcast[b].stats.failed = C38_Count(bcast[b], "failed")
        /\ bcast[b].stats.pending = C38_Count(bcast[b], "pending")
        /\ \A n \in {bcast[b].stats.sent, bcast[b].stats.failed, bcast[b].stats.pending} :
              0 <= n /\ n <= bcast[b].stats.total

\* C39: the cursor splits the recipient list in every reachable state: every
\* recipient below currentIndex is sent or failed, every recipient at or
\* above currentIndex is pending, and a completed broadcast has no pending
\* recipient.
C39_CursorSplits ==
    \A b \in Existing : \A i \in 1..Len(bcast[b].recipients) :
        /\ i <= bcast[b].currentIndex
              => bcast[b].recipients[i].status \in {"sent", "failed"}
        /\ i > bcast[b].currentIndex => bcast[b].recipients[i].status = "pending"
        /\ bcast[b].status = "completed" => bcast[b].recipients[i].status # "pending"

\* C40: while Redis is reachable, check admits at most limit calls per key in
\* any window of windowSeconds (the calls answered allowed = true whose
\* timestamps lie in the window that ends at the timestamp of any call are at
\* most limit), and an allowed answer reports remaining = limit minus the
\* number of calls then counted in the window.
C40_Reachable == \A i \in DOMAIN answered : answered[i].redis

C40_AllowedInWindow(i) ==
    {j \in DOMAIN answered :
        /\ answered[j].pc = "done"
        /\ answered[j].allowed
        /\ answered[j].t > answered[i].t - windowSeconds * 1000
        /\ answered[j].t <= answered[i].t}

C40_AtMostLimit ==
    C40_Reachable => \A i \in DOMAIN answered : Cardinality(C40_AllowedInWindow(i)) <= limit

C40_Remaining ==
    C40_Reachable
        => \A i \in DOMAIN answered :
              (answered[i].pc = "done" /\ answered[i].allowed)
                  => answered[i].remaining = limit - answered[i].counted

C40_RateLimit == C40_AtMostLimit /\ C40_Remaining

\* What the code guarantees of calls made at distinct milliseconds.
C40_DistinctMilliseconds ==
    (\A i, j \in DOMAIN answered : i # j => answered[i].t # answered[j].t)
        => C40_RateLimit


====
